---- MODULE Spec2Model ----
(***************************************************************************)
(* Model of the native LiveLink bridge (FLiveLinkBridge) and of the C call *)
(* surface (the ULL_ exports) that drives it.                               *)
(*                                                                         *)
(* The bridge is a process-wide singleton.  Its member variables are the   *)
(* variables of this module and keep their names.  Every bridge method is  *)
(* an operator from a bridge record (the members, plus the transport calls *)
(* and the unthrottled log lines issued so far by the running call) to the *)
(* bridge record after the method returned; a ULL_ export is an action     *)
(* that validates its arguments, interns the names and applies the method. *)
(*                                                                         *)
(* The function-local static counters that only throttle UE_LOG output     *)
(* (NotInitializedCount, NoSourceCount, UpdateCount) have no effect on the *)
(* members or on the transport; only CountedSpec follows one of them.  The *)
(* Cast<> null checks on a struct built from the very type it is cast to   *)
(* never fail and are not modelled as a branch.                            *)
(*                                                                         *)
(* Specifications: Spec (one caller, the twelve exports), ThreadSpec (two  *)
(* threads and the critical section), EmptyNameSpec (Spec with the exports *)
(* also called with an empty subject name), MockSpec (the mock library of  *)
(* Mock/MockLiveLink.cpp), LockSpec and LockFairSpec (the re-entrant       *)
(* critical section, UpdateTransformSubject split at its nested call),     *)
(* DeclaredSpec and DeclaredFairSpec (what the provider has been told),    *)
(* CountedSpec (the static counter of UpdateTransformSubject) and BothSpec *)
(* (the bridge and the mock called side by side).                          *)
(***************************************************************************)
EXTENDS Integers, Sequences, FiniteSets, TLC

\* ------------------------------------------------------------------------
\* Bounds of the model
\* ------------------------------------------------------------------------
NumNames == 1
NumDataNames == 1
MaxProps == 1

\* ------------------------------------------------------------------------
\* Program constants
\* ------------------------------------------------------------------------
ULL_OK == 0
ULL_ERROR == -1
ULL_NOT_CONNECTED == -2
ULL_NOT_INITIALIZED == -3

\* ------------------------------------------------------------------------
\* Input domains
\* ------------------------------------------------------------------------
\* An absent (NULL) pointer argument.
NullPtr == "<NULL>"

NamePool == <<"a", "b", "c", "d">>
RawNames == {NamePool[i] : i \in 1..NumNames}
RawDataNames == {NamePool[i] : i \in 1..NumDataNames}
RawPropName == "p"
ProviderNameInputs == {NullPtr, "", "Sim", "Other"}

\* Poses handed to the call surface: position[3], rotation[4], scale[3].
Pose1 == [position |-> "P1", rotation |-> "Q1", scale |-> "S1"]
NullTransform == [position |-> NullPtr, rotation |-> NullPtr, scale |-> NullPtr]
TransformInputs == {Pose1, NullTransform}

\* A propertyNames / propertyValues array argument of a given length; the
\* count argument travels separately and may be negative.
NullArray == [isNull |-> TRUE, elems |-> << >>]
NameArray(n) == [isNull |-> FALSE, elems |-> [i \in 1..n |-> RawPropName]]
ValueArray(n) == [isNull |-> FALSE, elems |-> [i \in 1..n |-> i]]
CountInputs == (0 - 1)..MaxProps

\* ------------------------------------------------------------------------
\* FName, FSubjectInfo, TMap
\* ------------------------------------------------------------------------
NAME_None == [Name |-> "None"]

\* FName(const TCHAR*): an interned token compared by value; the text "None"
\* is the none name.
FName(str) == [Name |-> str]

\* FSubjectInfo() and FSubjectInfo(const TArray<FName>&)
FSubjectInfoDefault == [PropertyNames |-> << >>, ExpectedPropertyCount |-> 0]
FSubjectInfo(InPropertyNames) ==
    [PropertyNames |-> InPropertyNames,
     ExpectedPropertyCount |-> Len(InPropertyNames)]

EmptyMap == << >>
MapContains(m, k) == k \in DOMAIN m
MapAdd(m, k, v) == [x \in (DOMAIN m) \cup {k} |-> IF x = k THEN v ELSE m[x]]
MapRemove(m, k) == [x \in (DOMAIN m) \ {k} |-> m[x]]

\* TSharedPtr<ILiveLinkProvider>
NullProvider == "null"
ValidProvider == "valid"

\* The threads of the host process that call into the library, and the
\* value of the critical section when no thread holds it.
Threads == {"t1", "t2"}
NoThread == "none"
\* A thread that is not inside a call.
Idle == [at |-> "idle", op |-> "none", name |-> NullPtr, fname |-> NAME_None, val |-> FALSE]

\* The static variables of the mock library as the process starts.
MockConstructed ==
    [g_isInitialized |-> FALSE,
     g_providerName |-> "",
     g_transformObjects |-> {},
     g_transformObjectProperties |-> EmptyMap,
     g_dataSubjectProperties |-> EmptyMap]

VARIABLES
    bInitialized,            \* FLiveLinkBridge::bInitialized
    ProviderName,            \* FLiveLinkBridge::ProviderName
    bLiveLinkReady,          \* FLiveLinkBridge::bLiveLinkReady
    LiveLinkProvider,        \* FLiveLinkBridge::LiveLinkProvider
    bLiveLinkSourceCreated,  \* FLiveLinkBridge::bLiveLinkSourceCreated
    bGEngineLoopInitialized, \* FLiveLinkBridge::bGEngineLoopInitialized
    TransformSubjects,       \* FLiveLinkBridge::TransformSubjects
    DataSubjects,            \* FLiveLinkBridge::DataSubjects
    NameCache,               \* FLiveLinkBridge::NameCache
    calls,                   \* calls made on the engine / transport by the last export
    log,                     \* unthrottled UE_LOG conditions of the last export
    lastOp,                  \* the last export called
    ret,                     \* its return value
    cycleCreates,            \* providers created since the bridge was initialized
    lock,                    \* FLiveLinkBridge::CriticalSection: the thread that holds it
    pc,                      \* where each calling thread is in its call
    mock,                    \* the static variables of MockLiveLink.cpp
    declared,                \* subjects whose static data the provider holds
    NotInitializedCount,     \* UpdateTransformSubject's static NotInitializedCount
    depth                    \* how many FScopeLocks the holder of the critical section has open

vars == <<bInitialized, ProviderName, bLiveLinkReady, LiveLinkProvider,
          bLiveLinkSourceCreated, bGEngineLoopInitialized, TransformSubjects,
          DataSubjects, NameCache, calls, log, lastOp, ret, cycleCreates,
          lock, pc, mock, declared, NotInitializedCount, depth>>

\* The bridge as seen by a method: the members and the effects of the call
\* (result is the value of a bool method, meaningful for Initialize only).
Self ==
    [bInitialized |-> bInitialized,
     ProviderName |-> ProviderName,
     bLiveLinkReady |-> bLiveLinkReady,
     LiveLinkProvider |-> LiveLinkProvider,
     bLiveLinkSourceCreated |-> bLiveLinkSourceCreated,
     bGEngineLoopInitialized |-> bGEngineLoopInitialized,
     TransformSubjects |-> TransformSubjects,
     DataSubjects |-> DataSubjects,
     NameCache |-> NameCache,
     calls |-> << >>,
     log |-> << >>,
     result |-> FALSE]

Call(b, c) == [b EXCEPT !.calls = Append(@, c)]
\* A reported condition: the message with the subject and the two counts it
\* prints (NAME_None and 0 where the message prints none).
Log(b, msg, subject, expected, got) ==
    [b EXCEPT !.log = Append(@, [msg |-> msg, subject |-> subject,
                                 expected |-> expected, got |-> got])]

\* ------------------------------------------------------------------------
\* Lifecycle
\* ------------------------------------------------------------------------
\* Initialize without the early return of an initialized bridge.
Initialize_NoIdempotentGuard(b, InProviderName, preInit) ==
    IF ~b.bGEngineLoopInitialized /\ preInit # 0
    THEN [Call(b, [fn |-> "PreInit", code |-> preInit]) EXCEPT !.result = FALSE]
    ELSE [b EXCEPT !.bGEngineLoopInitialized = TRUE,
                   !.ProviderName = InProviderName,
                   !.bInitialized = TRUE,
                   !.bLiveLinkReady = TRUE,
                   !.result = TRUE]

\* Initialize that creates the provider at once instead of leaving it to the
\* first registration.
Initialize_EagerProvider(b, InProviderName, preInit) ==
    IF b.bInitialized
    THEN [b EXCEPT !.result = TRUE]
    ELSE IF ~b.bGEngineLoopInitialized /\ preInit # 0
    THEN [Call(b, [fn |-> "PreInit", code |-> preInit]) EXCEPT !.result = FALSE]
    ELSE [Call(b, [fn |-> "CreateLiveLinkProvider",
                   name |-> InProviderName, ok |-> TRUE])
              EXCEPT !.bGEngineLoopInitialized = TRUE,
                     !.ProviderName = InProviderName,
                     !.bInitialized = TRUE,
                     !.bLiveLinkReady = TRUE,
                     !.LiveLinkProvider = ValidProvider,
                     !.bLiveLinkSourceCreated = TRUE,
                     !.result = TRUE]

\* Initialize that stores the provider name before it starts the engine
\* runtime.
Initialize_StoresNameFirst(b, InProviderName, preInit) ==
    IF b.bInitialized
    THEN [b EXCEPT !.result = TRUE]
    ELSE IF ~b.bGEngineLoopInitialized /\ preInit # 0
    THEN [Call(b, [fn |-> "PreInit", code |-> preInit])
              EXCEPT !.ProviderName = InProviderName, !.result = FALSE]
    ELSE LET e == IF b.bGEngineLoopInitialized
                  THEN b
                  ELSE [Call(b, [fn |-> "PreInit", code |-> preInit])
                            EXCEPT !.bGEngineLoopInitialized = TRUE]
         IN [e EXCEPT !.ProviderName = InProviderName,
                      !.bInitialized = TRUE,
                      !.bLiveLinkReady = TRUE,
                      !.result = TRUE]

\* Initialize that leaves bLiveLinkReady as it was.
Initialize_LeavesReadyFlag(b, InProviderName, preInit) ==
    IF b.bInitialized
    THEN [b EXCEPT !.result = TRUE]
    ELSE IF ~b.bGEngineLoopInitialized /\ preInit # 0
    THEN [Call(b, [fn |-> "PreInit", code |-> preInit]) EXCEPT !.result = FALSE]
    ELSE LET e == IF b.bGEngineLoopInitialized
                  THEN b
                  ELSE [Call(b, [fn |-> "PreInit", code |-> preInit])
                            EXCEPT !.bGEngineLoopInitialized = TRUE]
         IN [e EXCEPT !.ProviderName = InProviderName,
                      !.bInitialized = TRUE,
                      !.result = TRUE]

\* FLiveLinkBridge::Initialize.  preInit is the value GEngineLoop.PreInit
\* returns if it is called.
Initialize(b, InProviderName, preInit) ==
    IF b.bInitialized
    THEN [Log(b, "Initialize: already initialized", NAME_None, 0, 0)
              EXCEPT !.result = TRUE]
    ELSE IF ~b.bGEngineLoopInitialized /\ preInit # 0
    THEN [Log(Call(b, [fn |-> "PreInit", code |-> preInit]),
              "Initialize: PreInit failed", NAME_None, 0, preInit)
              EXCEPT !.result = FALSE]
    ELSE LET e == IF b.bGEngineLoopInitialized
                  THEN b
                  ELSE [Call(b, [fn |-> "PreInit", code |-> preInit])
                            EXCEPT !.bGEngineLoopInitialized = TRUE]
         IN [e EXCEPT !.ProviderName = InProviderName,
                      !.bInitialized = TRUE,
                      !.bLiveLinkReady = TRUE,
                      !.result = TRUE]

\* Shutdown that forgets NameCache.Empty().
Shutdown_KeepsNameCache(b) ==
    IF ~b.bInitialized
    THEN b
    ELSE [b EXCEPT !.LiveLinkProvider = NullProvider,
                   !.bLiveLinkSourceCreated = FALSE,
                   !.calls = IF b.bLiveLinkSourceCreated
                                 /\ b.LiveLinkProvider = ValidProvider
                             THEN Append(@, [fn |-> "Reset"]) ELSE @,
                   !.TransformSubjects = EmptyMap,
                   !.DataSubjects = EmptyMap,
                   !.ProviderName = "",
                   !.bInitialized = FALSE,
                   !.bLiveLinkReady = FALSE]

\* Shutdown that leaves the records of the transform subjects in place.
Shutdown_KeepsSubjects(b) ==
    IF ~b.bInitialized
    THEN b
    ELSE [b EXCEPT !.LiveLinkProvider = NullProvider,
                   !.bLiveLinkSourceCreated = FALSE,
                   !.calls = IF b.bLiveLinkSourceCreated
                                 /\ b.LiveLinkProvider = ValidProvider
                             THEN Append(@, [fn |-> "Reset"]) ELSE @,
                   !.DataSubjects = EmptyMap,
                   !.NameCache = EmptyMap,
                   !.ProviderName = "",
                   !.bInitialized = FALSE,
                   !.bLiveLinkReady = FALSE]

\* Shutdown without the early return of an uninitialized bridge.
Shutdown_NoInitCheck(b) ==
    LET p == IF b.bLiveLinkSourceCreated /\ b.LiveLinkProvider = ValidProvider
             THEN [Call(b, [fn |-> "Reset"])
                       EXCEPT !.LiveLinkProvider = NullProvider,
                              !.bLiveLinkSourceCreated = FALSE]
             ELSE b
    IN [p EXCEPT !.TransformSubjects = EmptyMap,
                 !.DataSubjects = EmptyMap,
                 !.NameCache = EmptyMap,
                 !.ProviderName = "",
                 !.bInitialized = FALSE,
                 !.bLiveLinkReady = FALSE]

\* FLiveLinkBridge::Shutdown
Shutdown(b) ==
    IF ~b.bInitialized
    THEN Log(b, "Shutdown: not initialized", NAME_None, 0, 0)
    ELSE LET c == Log(b, "Shutdown: clearing", NAME_None,
                      Cardinality(DOMAIN b.TransformSubjects),
                      Cardinality(DOMAIN b.DataSubjects))
             p == IF c.bLiveLinkSourceCreated /\ c.LiveLinkProvider = ValidProvider
                  THEN [Call(c, [fn |-> "Reset"])
                            EXCEPT !.LiveLinkProvider = NullProvider,
                                   !.bLiveLinkSourceCreated = FALSE]
                  ELSE c
         IN [p EXCEPT !.TransformSubjects = EmptyMap,
                      !.DataSubjects = EmptyMap,
                      !.NameCache = EmptyMap,
                      !.ProviderName = "",
                      !.bInitialized = FALSE,
                      !.bLiveLinkReady = FALSE]

\* FLiveLinkBridge::GetConnectionStatus
GetConnectionStatus(b) ==
    IF ~b.bInitialized THEN ULL_NOT_INITIALIZED
    ELSE IF b.bLiveLinkSourceCreated /\ b.LiveLinkProvider = ValidProvider THEN ULL_OK
    ELSE IF b.bLiveLinkReady THEN ULL_OK
    ELSE ULL_NOT_CONNECTED

\* EnsureLiveLinkSource without the early return for a provider that is
\* already there.
EnsureLiveLinkSource_NoCreatedGuard(b, createOk) ==
    LET c == Call(b, [fn |-> "CreateLiveLinkProvider",
                      name |-> b.ProviderName, ok |-> createOk])
    IN IF ~createOk
       THEN [c EXCEPT !.LiveLinkProvider = NullProvider]
       ELSE [c EXCEPT !.LiveLinkProvider = ValidProvider,
                      !.bLiveLinkSourceCreated = TRUE]

\* EnsureLiveLinkSource that sets bLiveLinkSourceCreated before it tests the
\* provider it was given.
EnsureLiveLinkSource_FlagBeforeTest(b, createOk) ==
    IF b.bLiveLinkSourceCreated
    THEN b
    ELSE LET c == Call(b, [fn |-> "CreateLiveLinkProvider",
                           name |-> b.ProviderName, ok |-> createOk])
         IN [c EXCEPT !.LiveLinkProvider =
                          IF createOk THEN ValidProvider ELSE NullProvider,
                      !.bLiveLinkSourceCreated = TRUE]

\* FLiveLinkBridge::EnsureLiveLinkSource.  createOk tells whether
\* ILiveLinkProvider::CreateLiveLinkProvider returns a valid provider if it
\* is called.
EnsureLiveLinkSource(b, createOk) ==
    IF b.bLiveLinkSourceCreated
    THEN b
    ELSE LET c == Call(b, [fn |-> "CreateLiveLinkProvider",
                           name |-> b.ProviderName, ok |-> createOk])
         IN IF ~createOk
            THEN [Log(c, "EnsureLiveLinkSource: failed", NAME_None, 0, 0)
                      EXCEPT !.LiveLinkProvider = NullProvider]
            ELSE [c EXCEPT !.LiveLinkProvider = ValidProvider,
                           !.bLiveLinkSourceCreated = TRUE]

\* ------------------------------------------------------------------------
\* Transform subjects
\* ------------------------------------------------------------------------
StaticData(SubjectName, PropertyNames) ==
    [fn |-> "UpdateSubjectStaticData", subject |-> SubjectName,
     role |-> "Transform", props |-> PropertyNames]

FrameData(SubjectName, Transform, PropertyValues) ==
    [fn |-> "UpdateSubjectFrameData", subject |-> SubjectName,
     transform |-> Transform, values |-> PropertyValues]

\* RegisterTransformSubject without the Contains test: a second
\* registration replaces the record and declares the subject again.
RegisterTransformSubject_Overwrite(b, SubjectName, createOk) ==
    IF ~b.bInitialized
    THEN b
    ELSE LET e == EnsureLiveLinkSource(b, createOk)
         IN IF ~e.bLiveLinkSourceCreated
            THEN [e EXCEPT !.TransformSubjects =
                               MapAdd(@, SubjectName, FSubjectInfoDefault)]
            ELSE [Call(e, StaticData(SubjectName, << >>))
                      EXCEPT !.TransformSubjects =
                                 MapAdd(@, SubjectName, FSubjectInfoDefault)]

\* RegisterTransformSubject that declares the static data again when the
\* subject is already registered.
RegisterTransformSubject_RedeclaresOnRepeat(b, SubjectName, createOk) ==
    IF ~b.bInitialized
    THEN b
    ELSE IF MapContains(b.TransformSubjects, SubjectName)
    THEN IF b.bLiveLinkSourceCreated
         THEN Call(b, StaticData(SubjectName, << >>))
         ELSE b
    ELSE LET e == EnsureLiveLinkSource(b, createOk)
         IN IF ~e.bLiveLinkSourceCreated
            THEN [e EXCEPT !.TransformSubjects =
                               MapAdd(@, SubjectName, FSubjectInfoDefault)]
            ELSE [Call(e, StaticData(SubjectName, << >>))
                      EXCEPT !.TransformSubjects =
                                 MapAdd(@, SubjectName, FSubjectInfoDefault)]

\* FLiveLinkBridge::RegisterTransformSubject
RegisterTransformSubject(b, SubjectName, createOk) ==
    IF ~b.bInitialized
    THEN Log(b, "RegisterTransformSubject: not initialized", SubjectName, 0, 0)
    ELSE IF MapContains(b.TransformSubjects, SubjectName)
    THEN Log(b, "RegisterTransformSubject: already registered",
             SubjectName, 0, 0)
    ELSE LET e == EnsureLiveLinkSource(b, createOk)
         IN IF ~e.bLiveLinkSourceCreated
            THEN [Log(e, "RegisterTransformSubject: source not available",
                      SubjectName, 0, 0)
                      EXCEPT !.TransformSubjects =
                                 MapAdd(@, SubjectName, FSubjectInfoDefault)]
            ELSE [Log(Call(e, StaticData(SubjectName, << >>)),
                      "RegisterTransformSubject: registered", SubjectName, 0, 0)
                      EXCEPT !.TransformSubjects =
                                 MapAdd(@, SubjectName, FSubjectInfoDefault)]

\* RegisterTransformSubjectWithProperties without the Contains test: a
\* second registration replaces the record of the subject.
RegisterTransformSubjectWithProperties_Overwrite(b, SubjectName, PropertyNames, createOk) ==
    IF ~b.bInitialized
    THEN b
    ELSE LET e == EnsureLiveLinkSource(b, createOk)
         IN IF ~e.bLiveLinkSourceCreated
            THEN [e EXCEPT !.TransformSubjects =
                               MapAdd(@, SubjectName, FSubjectInfo(PropertyNames))]
            ELSE [Call(e, StaticData(SubjectName, PropertyNames))
                      EXCEPT !.TransformSubjects =
                                 MapAdd(@, SubjectName, FSubjectInfo(PropertyNames))]

\* RegisterTransformSubjectWithProperties that gives up, without a record,
\* when the provider cannot be had.
RegisterTransformSubjectWithProperties_DropsOnFailure(b, SubjectName, PropertyNames, createOk) ==
    IF ~b.bInitialized
    THEN b
    ELSE IF MapContains(b.TransformSubjects, SubjectName)
    THEN b
    ELSE LET e == EnsureLiveLinkSource(b, createOk)
         IN IF ~e.bLiveLinkSourceCreated
            THEN e
            ELSE [Call(e, StaticData(SubjectName, PropertyNames))
                      EXCEPT !.TransformSubjects =
                                 MapAdd(@, SubjectName, FSubjectInfo(PropertyNames))]

\* FLiveLinkBridge::RegisterTransformSubjectWithProperties
RegisterTransformSubjectWithProperties(b, SubjectName, PropertyNames, createOk) ==
    IF ~b.bInitialized
    THEN Log(b, "RegisterTransformSubjectWithProperties: not initialized",
             SubjectName, 0, 0)
    ELSE IF MapContains(b.TransformSubjects, SubjectName)
    THEN Log(b, "RegisterTransformSubjectWithProperties: already registered",
             SubjectName, 0, 0)
    ELSE LET e == EnsureLiveLinkSource(b, createOk)
         IN IF ~e.bLiveLinkSourceCreated
            THEN [Log(e, "RegisterTransformSubjectWithProperties: source not available",
                      SubjectName, 0, 0)
                      EXCEPT !.TransformSubjects =
                                 MapAdd(@, SubjectName, FSubjectInfo(PropertyNames))]
            ELSE [Log(Call(e, StaticData(SubjectName, PropertyNames)),
                      "RegisterTransformSubjectWithProperties: registered",
                      SubjectName, 0, Len(PropertyNames))
                      EXCEPT !.TransformSubjects =
                                 MapAdd(@, SubjectName, FSubjectInfo(PropertyNames))]

\* UpdateTransformSubject without the auto-registration of an unknown
\* subject.
UpdateTransformSubject_NoAutoRegister(b, SubjectName, Transform, createOk) ==
    IF ~b.bInitialized
    THEN b
    ELSE IF ~b.bLiveLinkSourceCreated
    THEN b
    ELSE Call(b, FrameData(SubjectName, Transform, << >>))

\* UpdateTransformSubject that returns after auto-registering, without
\* pushing the frame of that call.
UpdateTransformSubject_ReturnsAfterRegister(b, SubjectName, Transform, createOk) ==
    IF ~b.bInitialized
    THEN b
    ELSE IF ~MapContains(b.TransformSubjects, SubjectName)
    THEN RegisterTransformSubject(
             Log(b, "UpdateTransformSubject: auto-registering", SubjectName, 0, 0),
             SubjectName, createOk)
    ELSE IF ~b.bLiveLinkSourceCreated
    THEN b
    ELSE Call(b, FrameData(SubjectName, Transform, << >>))

\* FLiveLinkBridge::UpdateTransformSubject
UpdateTransformSubject(b, SubjectName, Transform, createOk) ==
    IF ~b.bInitialized
    THEN b
    ELSE LET r == IF ~MapContains(b.TransformSubjects, SubjectName)
                  THEN RegisterTransformSubject(
                           Log(b, "UpdateTransformSubject: auto-registering",
                               SubjectName, 0, 0),
                           SubjectName, createOk)
                  ELSE b
         IN IF ~r.bLiveLinkSourceCreated
            THEN r
            ELSE Call(r, FrameData(SubjectName, Transform, << >>))

\* UpdateTransformSubjectWithProperties without the comparison against
\* ExpectedPropertyCount.
UpdateTransformSubjectWithProperties_NoValidation(b, SubjectName, Transform, PropertyValues) ==
    IF ~b.bInitialized
    THEN b
    ELSE IF ~b.bLiveLinkSourceCreated
    THEN b
    ELSE Call(b, FrameData(SubjectName, Transform, PropertyValues))

\* UpdateTransformSubjectWithProperties that returns for a subject
\* TransformSubjects does not hold.
UpdateTransformSubjectWithProperties_RejectsUnregistered(b, SubjectName, Transform, PropertyValues) ==
    IF ~b.bInitialized
    THEN b
    ELSE IF ~MapContains(b.TransformSubjects, SubjectName)
    THEN Log(b, "UpdateTransformSubjectWithProperties: not registered",
             SubjectName, 0, 0)
    ELSE IF b.TransformSubjects[SubjectName].ExpectedPropertyCount
                # Len(PropertyValues)
    THEN Log(b, "UpdateTransformSubjectWithProperties: property count mismatch",
             SubjectName, b.TransformSubjects[SubjectName].ExpectedPropertyCount,
             Len(PropertyValues))
    ELSE IF ~b.bLiveLinkSourceCreated
    THEN b
    ELSE Call(b, FrameData(SubjectName, Transform, PropertyValues))

\* FLiveLinkBridge::UpdateTransformSubjectWithProperties
UpdateTransformSubjectWithProperties(b, SubjectName, Transform, PropertyValues) ==
    IF ~b.bInitialized
    THEN b
    ELSE IF /\ MapContains(b.TransformSubjects, SubjectName)
            /\ b.TransformSubjects[SubjectName].ExpectedPropertyCount
                   # Len(PropertyValues)
    THEN Log(b, "UpdateTransformSubjectWithProperties: property count mismatch",
             SubjectName, b.TransformSubjects[SubjectName].ExpectedPropertyCount,
             Len(PropertyValues))
    ELSE LET v == IF MapContains(b.TransformSubjects, SubjectName)
                  THEN b
                  ELSE Log(b, "UpdateTransformSubjectWithProperties: not registered",
                           SubjectName, 0, 0)
         IN IF ~v.bLiveLinkSourceCreated
            THEN v
            ELSE Call(v, FrameData(SubjectName, Transform, PropertyValues))

\* RemoveTransformSubject that asks the provider to remove the subject
\* whether or not TMap::Remove found a record.
RemoveTransformSubject_NoPresenceTest(b, SubjectName) ==
    IF ~b.bInitialized
    THEN b
    ELSE LET d == [b EXCEPT !.TransformSubjects = MapRemove(@, SubjectName)]
         IN IF d.bLiveLinkSourceCreated /\ d.LiveLinkProvider = ValidProvider
            THEN Call(d, [fn |-> "RemoveSubject", subject |-> SubjectName])
            ELSE d

\* FLiveLinkBridge::RemoveTransformSubject
RemoveTransformSubject(b, SubjectName) ==
    IF ~b.bInitialized
    THEN Log(b, "RemoveTransformSubject: not initialized", SubjectName, 0, 0)
    ELSE IF MapContains(b.TransformSubjects, SubjectName)
    THEN LET d == [Log(b, "RemoveTransformSubject: removed", SubjectName, 0, 0)
                       EXCEPT !.TransformSubjects = MapRemove(@, SubjectName)]
         IN IF d.bLiveLinkSourceCreated /\ d.LiveLinkProvider = ValidProvider
            THEN Call(d, [fn |-> "RemoveSubject", subject |-> SubjectName])
            ELSE d
    ELSE Log(b, "RemoveTransformSubject: not found", SubjectName, 0, 0)

\* ------------------------------------------------------------------------
\* Data subjects
\* ------------------------------------------------------------------------
\* RegisterDataSubject without the bInitialized test.
RegisterDataSubject_NoInitCheck(b, SubjectName, PropertyNames) ==
    IF MapContains(b.DataSubjects, SubjectName)
    THEN b
    ELSE [b EXCEPT !.DataSubjects =
                       MapAdd(@, SubjectName, FSubjectInfo(PropertyNames))]

\* FLiveLinkBridge::RegisterDataSubject
RegisterDataSubject(b, SubjectName, PropertyNames) ==
    IF ~b.bInitialized
    THEN Log(b, "RegisterDataSubject: not initialized", SubjectName, 0, 0)
    ELSE IF MapContains(b.DataSubjects, SubjectName)
    THEN Log(b, "RegisterDataSubject: already registered", SubjectName, 0, 0)
    ELSE [Log(b, "RegisterDataSubject: registered",
              SubjectName, 0, Len(PropertyNames))
              EXCEPT !.DataSubjects =
                         MapAdd(@, SubjectName, FSubjectInfo(PropertyNames))]

\* UpdateDataSubject that registers a subject DataSubjects does not hold.
UpdateDataSubject_AutoRegisters(b, SubjectName, PropertyValues) ==
    IF ~b.bInitialized
    THEN b
    ELSE IF /\ MapContains(b.DataSubjects, SubjectName)
            /\ b.DataSubjects[SubjectName].ExpectedPropertyCount
                   # Len(PropertyValues)
    THEN Log(b, "UpdateDataSubject: property count mismatch",
             SubjectName, b.DataSubjects[SubjectName].ExpectedPropertyCount,
             Len(PropertyValues))
    ELSE IF MapContains(b.DataSubjects, SubjectName)
    THEN b
    ELSE [Log(b, "UpdateDataSubject: not registered", SubjectName, 0, 0)
              EXCEPT !.DataSubjects = MapAdd(@, SubjectName, FSubjectInfoDefault)]

\* FLiveLinkBridge::UpdateDataSubject
UpdateDataSubject(b, SubjectName, PropertyValues) ==
    IF ~b.bInitialized
    THEN b
    ELSE IF /\ MapContains(b.DataSubjects, SubjectName)
            /\ b.DataSubjects[SubjectName].ExpectedPropertyCount
                   # Len(PropertyValues)
    THEN Log(b, "UpdateDataSubject: property count mismatch",
             SubjectName, b.DataSubjects[SubjectName].ExpectedPropertyCount,
             Len(PropertyValues))
    ELSE IF MapContains(b.DataSubjects, SubjectName)
    THEN b
    ELSE Log(b, "UpdateDataSubject: not registered", SubjectName, 0, 0)

\* RemoveDataSubject that also removes the transform subject of that name.
RemoveDataSubject_RemovesBoth(b, SubjectName) ==
    IF ~b.bInitialized
    THEN b
    ELSE IF MapContains(b.DataSubjects, SubjectName)
    THEN [b EXCEPT !.DataSubjects = MapRemove(@, SubjectName),
                   !.TransformSubjects =
                       IF MapContains(@, SubjectName)
                       THEN MapRemove(@, SubjectName) ELSE @]
    ELSE b

\* FLiveLinkBridge::RemoveDataSubject
RemoveDataSubject(b, SubjectName) ==
    IF ~b.bInitialized
    THEN Log(b, "RemoveDataSubject: not initialized", SubjectName, 0, 0)
    ELSE IF MapContains(b.DataSubjects, SubjectName)
    THEN [Log(b, "RemoveDataSubject: removed", SubjectName, 0, 0)
              EXCEPT !.DataSubjects = MapRemove(@, SubjectName)]
    ELSE Log(b, "RemoveDataSubject: not found", SubjectName, 0, 0)

\* ------------------------------------------------------------------------
\* Name cache
\* ------------------------------------------------------------------------
\* FLiveLinkBridge::GetCachedName, the returned FName
CachedName(b, cString) ==
    IF cString = NullPtr \/ cString = ""
    THEN NAME_None
    ELSE IF MapContains(b.NameCache, cString)
    THEN b.NameCache[cString]
    ELSE FName(cString)

\* GetCachedName that never stores the name it creates.
GetCachedName_NoStore(b, cString) == b

\* GetCachedName that stores a name only while the bridge is initialized.
GetCachedName_OnlyWhenInitialized(b, cString) ==
    IF cString = NullPtr \/ cString = ""
    THEN b
    ELSE IF MapContains(b.NameCache, cString) \/ ~b.bInitialized
    THEN b
    ELSE [b EXCEPT !.NameCache = MapAdd(@, cString, FName(cString))]

\* FLiveLinkBridge::GetCachedName, the bridge after the call
GetCachedName(b, cString) ==
    IF cString = NullPtr \/ cString = ""
    THEN b
    ELSE IF MapContains(b.NameCache, cString)
    THEN b
    ELSE [b EXCEPT !.NameCache = MapAdd(@, cString, FName(cString))]

\* ------------------------------------------------------------------------
\* Call surface helpers
\* ------------------------------------------------------------------------
ULL_API_VERSION == 1

\* ConvertToFTransform: FTransform(Rotation, Location, Scale)
FTransformIdentity == [Rotation |-> "Q0", Translation |-> "P0", Scale3D |-> "S0"]
ConvertToFTransform(transform) ==
    IF transform = NullTransform
    THEN FTransformIdentity
    ELSE [Rotation |-> transform.rotation,
          Translation |-> transform.position,
          Scale3D |-> transform.scale]

\* ConvertPropertyNames: the loop from index i on; every non-NULL entry goes
\* through GetCachedName, so the bridge is threaded through the loop.
RECURSIVE ConvertPropertyNamesFrom(_, _, _, _, _)
ConvertPropertyNamesFrom(b, propertyNames, propertyCount, i, Result) ==
    IF i >= propertyCount
    THEN [bridge |-> b, Result |-> Result]
    ELSE IF propertyNames.elems[i + 1] # NullPtr
    THEN ConvertPropertyNamesFrom(GetCachedName(b, propertyNames.elems[i + 1]),
                                  propertyNames, propertyCount, i + 1,
                                  Append(Result, CachedName(b, propertyNames.elems[i + 1])))
    ELSE ConvertPropertyNamesFrom(b, propertyNames, propertyCount, i + 1,
                                  Append(Result, NAME_None))

ConvertPropertyNames(b, propertyNames, propertyCount) ==
    ConvertPropertyNamesFrom(b, propertyNames, propertyCount, 0, << >>)

\* ConvertPropertyValues that leaves the last value out.
ConvertPropertyValues_Short(propertyValues, propertyCount) ==
    [i \in 1..(propertyCount - 1) |-> propertyValues.elems[i]]

\* ConvertPropertyValues: copies propertyCount values; a count below one
\* gives the empty array.
ConvertPropertyValues(propertyValues, propertyCount) ==
    [i \in 1..propertyCount |-> propertyValues.elems[i]]

\* The array arguments a caller can pass together with a count.
NameArrayInputs(n) == {NullArray, NameArray(n)}
ValueArrayInputs(n) == {NullArray, ValueArray(n)}

\* The outcomes of ILiveLinkProvider::CreateLiveLinkProvider a call can meet:
\* the factory is only ever called by an initialized bridge that has no
\* provider yet, so only then is there an outcome to choose.
CreateOutcomes == IF bInitialized /\ ~bLiveLinkSourceCreated THEN BOOLEAN ELSE {TRUE}

\* The values of an argument a call can meet: an export returns at the
\* first test that fails, so an argument it would only read after that test
\* is not read and one value stands for all.
IfRead(read, values) == IF read THEN values ELSE {CHOOSE v \in values : TRUE}

\* The number of valid providers CreateLiveLinkProvider returned among the
\* calls cs.
RECURSIVE CreatedIn(_)
CreatedIn(cs) ==
    IF cs = << >>
    THEN 0
    ELSE (IF Head(cs).fn = "CreateLiveLinkProvider" /\ Head(cs).ok THEN 1 ELSE 0)
         + CreatedIn(Tail(cs))

\* The export returns: the members take the values of the bridge record.
Return(b, op, r) ==
    /\ bInitialized' = b.bInitialized
    /\ ProviderName' = b.ProviderName
    /\ bLiveLinkReady' = b.bLiveLinkReady
    /\ LiveLinkProvider' = b.LiveLinkProvider
    /\ bLiveLinkSourceCreated' = b.bLiveLinkSourceCreated
    /\ bGEngineLoopInitialized' = b.bGEngineLoopInitialized
    /\ TransformSubjects' = b.TransformSubjects
    /\ DataSubjects' = b.DataSubjects
    /\ NameCache' = b.NameCache
    /\ calls' = b.calls
    /\ log' = b.log
    /\ lastOp' = op
    /\ ret' = r
    /\ cycleCreates' = IF b.bInitialized THEN cycleCreates + CreatedIn(b.calls) ELSE 0
    /\ UNCHANGED <<lock, pc, mock, declared, NotInitializedCount, depth>>

\* ------------------------------------------------------------------------
\* Call surface: lifecycle
\* ------------------------------------------------------------------------
\* ULL_Initialize without the test for an empty provider name.
ULL_InitializeBody_NoEmptyCheck(b, providerName, preInit) ==
    IF providerName = NullPtr
    THEN b
    ELSE Initialize(b, providerName, preInit)

ULL_InitializeBody(b, providerName, preInit) ==
    IF providerName = NullPtr
    THEN Log(b, "ULL_Initialize: providerName is NULL", NAME_None, 0, 0)
    ELSE IF providerName = ""
    THEN Log(b, "ULL_Initialize: providerName is empty", NAME_None, 0, 0)
    ELSE Initialize(b, providerName, preInit)

\* The status code ULL_Initialize returns for the bridge record it ends with.
ULL_InitializeReturn(r) == IF r.result THEN ULL_OK ELSE ULL_ERROR

ULL_InitializeStep(providerName, preInit) ==
    LET r == ULL_InitializeBody(Self, providerName, preInit)
    IN Return(r, "ULL_Initialize", <<ULL_InitializeReturn(r)>>)

ULL_Initialize ==
    \E providerName \in ProviderNameInputs, preInit \in {0, 1} :
        ULL_InitializeStep(providerName, preInit)

ULL_Shutdown ==
    Return(Shutdown(Self), "ULL_Shutdown", << >>)

ULL_GetVersion ==
    Return(Self, "ULL_GetVersion", <<ULL_API_VERSION>>)

ULL_IsConnected ==
    Return(Self, "ULL_IsConnected", <<GetConnectionStatus(Self)>>)

\* ------------------------------------------------------------------------
\* Call surface: transform subjects
\* ------------------------------------------------------------------------
ULL_RegisterObjectBody(b, subjectName, createOk) ==
    IF subjectName = NullPtr
    THEN Log(b, "ULL_RegisterObject: subjectName is NULL", NAME_None, 0, 0)
    ELSE RegisterTransformSubject(GetCachedName(b, subjectName),
                                  CachedName(b, subjectName), createOk)

ULL_RegisterObjectStep(subjectName, createOk) ==
    Return(ULL_RegisterObjectBody(Self, subjectName, createOk),
           "ULL_RegisterObject", << >>)

ULL_RegisterObject ==
    \E subjectName \in RawNames \cup {NullPtr} :
        \E createOk \in IfRead(subjectName # NullPtr, CreateOutcomes) :
            ULL_RegisterObjectStep(subjectName, createOk)

ULL_RegisterObjectWithPropertiesBody(b, subjectName, propertyNames, propertyCount, createOk) ==
    IF subjectName = NullPtr
    THEN Log(b, "ULL_RegisterObjectWithProperties: subjectName is NULL",
             NAME_None, 0, 0)
    ELSE IF propertyCount > 0 /\ propertyNames.isNull
    THEN Log(b, "ULL_RegisterObjectWithProperties: propertyNames is NULL",
             NAME_None, 0, propertyCount)
    ELSE IF propertyCount < 0
    THEN Log(b, "ULL_RegisterObjectWithProperties: propertyCount is negative",
             NAME_None, 0, propertyCount)
    ELSE LET n == GetCachedName(b, subjectName)
             c == ConvertPropertyNames(n, propertyNames, propertyCount)
         IN RegisterTransformSubjectWithProperties(
                c.bridge, CachedName(b, subjectName), c.Result, createOk)

ULL_RegisterObjectWithPropertiesStep(subjectName, propertyNames, propertyCount, createOk) ==
    Return(ULL_RegisterObjectWithPropertiesBody(
               Self, subjectName, propertyNames, propertyCount, createOk),
           "ULL_RegisterObjectWithProperties", << >>)

ULL_RegisterObjectWithProperties ==
    \E subjectName \in RawNames \cup {NullPtr} :
        \E propertyCount \in IfRead(subjectName # NullPtr, CountInputs),
           createOk \in IfRead(subjectName # NullPtr, CreateOutcomes) :
            \E propertyNames \in IfRead(subjectName # NullPtr,
                                        NameArrayInputs(propertyCount)) :
                ULL_RegisterObjectWithPropertiesStep(
                    subjectName, propertyNames, propertyCount, createOk)

ULL_UpdateObjectBody(b, subjectName, transform, createOk) ==
    IF subjectName = NullPtr
    THEN Log(b, "ULL_UpdateObject: subjectName is NULL", NAME_None, 0, 0)
    ELSE IF transform = NullTransform
    THEN Log(b, "ULL_UpdateObject: transform is NULL", NAME_None, 0, 0)
    ELSE UpdateTransformSubject(GetCachedName(b, subjectName),
                                CachedName(b, subjectName),
                                ConvertToFTransform(transform), createOk)

ULL_UpdateObjectStep(subjectName, transform, createOk) ==
    Return(ULL_UpdateObjectBody(Self, subjectName, transform, createOk),
           "ULL_UpdateObject", << >>)

ULL_UpdateObject ==
    \E subjectName \in RawNames \cup {NullPtr} :
        \E transform \in IfRead(subjectName # NullPtr, TransformInputs) :
            \E createOk \in IfRead(subjectName # NullPtr /\ transform # NullTransform,
                                   CreateOutcomes) :
                ULL_UpdateObjectStep(subjectName, transform, createOk)

ULL_UpdateObjectWithPropertiesBody(b, subjectName, transform, propertyValues, propertyCount) ==
    IF subjectName = NullPtr
    THEN Log(b, "ULL_UpdateObjectWithProperties: subjectName is NULL",
             NAME_None, 0, 0)
    ELSE IF transform = NullTransform
    THEN Log(b, "ULL_UpdateObjectWithProperties: transform is NULL",
             NAME_None, 0, 0)
    ELSE IF propertyCount > 0 /\ propertyValues.isNull
    THEN Log(b, "ULL_UpdateObjectWithProperties: propertyValues is NULL",
             NAME_None, 0, propertyCount)
    ELSE UpdateTransformSubjectWithProperties(
             GetCachedName(b, subjectName), CachedName(b, subjectName),
             ConvertToFTransform(transform),
             ConvertPropertyValues(propertyValues, propertyCount))

ULL_UpdateObjectWithPropertiesStep(subjectName, transform, propertyValues, propertyCount) ==
    Return(ULL_UpdateObjectWithPropertiesBody(
               Self, subjectName, transform, propertyValues, propertyCount),
           "ULL_UpdateObjectWithProperties", << >>)

ULL_UpdateObjectWithProperties ==
    \E subjectName \in RawNames \cup {NullPtr} :
        \E transform \in IfRead(subjectName # NullPtr, TransformInputs) :
            \E propertyCount \in IfRead(subjectName # NullPtr /\ transform # NullTransform,
                                        CountInputs) :
                \E propertyValues \in IfRead(subjectName # NullPtr
                                                 /\ transform # NullTransform,
                                             ValueArrayInputs(propertyCount)) :
                    ULL_UpdateObjectWithPropertiesStep(
                        subjectName, transform, propertyValues, propertyCount)

ULL_RemoveObjectBody(b, subjectName) ==
    IF subjectName = NullPtr
    THEN Log(b, "ULL_RemoveObject: subjectName is NULL", NAME_None, 0, 0)
    ELSE RemoveTransformSubject(GetCachedName(b, subjectName),
                                CachedName(b, subjectName))

ULL_RemoveObjectStep(subjectName) ==
    Return(ULL_RemoveObjectBody(Self, subjectName), "ULL_RemoveObject", << >>)

ULL_RemoveObject ==
    \E subjectName \in RawNames \cup {NullPtr} :
        ULL_RemoveObjectStep(subjectName)

\* ------------------------------------------------------------------------
\* Call surface: data subjects
\* ------------------------------------------------------------------------
ULL_RegisterDataSubjectBody(b, subjectName, propertyNames, propertyCount) ==
    IF subjectName = NullPtr
    THEN Log(b, "ULL_RegisterDataSubject: subjectName is NULL", NAME_None, 0, 0)
    ELSE IF propertyCount > 0 /\ propertyNames.isNull
    THEN Log(b, "ULL_RegisterDataSubject: propertyNames is NULL",
             NAME_None, 0, propertyCount)
    ELSE IF propertyCount < 0
    THEN Log(b, "ULL_RegisterDataSubject: propertyCount is negative",
             NAME_None, 0, propertyCount)
    ELSE LET n == GetCachedName(b, subjectName)
             c == ConvertPropertyNames(n, propertyNames, propertyCount)
         IN RegisterDataSubject(c.bridge, CachedName(b, subjectName), c.Result)

ULL_RegisterDataSubjectStep(subjectName, propertyNames, propertyCount) ==
    Return(ULL_RegisterDataSubjectBody(
               Self, subjectName, propertyNames, propertyCount),
           "ULL_RegisterDataSubject", << >>)

ULL_RegisterDataSubject ==
    \E subjectName \in RawDataNames \cup {NullPtr} :
        \E propertyCount \in IfRead(subjectName # NullPtr, CountInputs) :
            \E propertyNames \in IfRead(subjectName # NullPtr,
                                        NameArrayInputs(propertyCount)) :
                ULL_RegisterDataSubjectStep(subjectName, propertyNames, propertyCount)

ULL_UpdateDataSubjectBody(b, subjectName, propertyValues, propertyCount) ==
    IF subjectName = NullPtr
    THEN Log(b, "ULL_UpdateDataSubject: subjectName is NULL", NAME_None, 0, 0)
    ELSE IF propertyCount > 0 /\ propertyValues.isNull
    THEN Log(b, "ULL_UpdateDataSubject: propertyValues is NULL",
             NAME_None, 0, propertyCount)
    ELSE IF propertyCount < 0
    THEN Log(b, "ULL_UpdateDataSubject: propertyCount is negative",
             NAME_None, 0, propertyCount)
    ELSE UpdateDataSubject(GetCachedName(b, subjectName),
                           CachedName(b, subjectName),
                           ConvertPropertyValues(propertyValues, propertyCount))

ULL_UpdateDataSubjectStep(subjectName, propertyValues, propertyCount) ==
    Return(ULL_UpdateDataSubjectBody(
               Self, subjectName, propertyValues, propertyCount),
           "ULL_UpdateDataSubject", << >>)

ULL_UpdateDataSubject ==
    \E subjectName \in RawDataNames \cup {NullPtr} :
        \E propertyCount \in IfRead(subjectName # NullPtr, CountInputs) :
            \E propertyValues \in IfRead(subjectName # NullPtr,
                                         ValueArrayInputs(propertyCount)) :
                ULL_UpdateDataSubjectStep(subjectName, propertyValues, propertyCount)

ULL_RemoveDataSubjectBody(b, subjectName) ==
    IF subjectName = NullPtr
    THEN Log(b, "ULL_RemoveDataSubject: subjectName is NULL", NAME_None, 0, 0)
    ELSE RemoveDataSubject(GetCachedName(b, subjectName),
                           CachedName(b, subjectName))

ULL_RemoveDataSubjectStep(subjectName) ==
    Return(ULL_RemoveDataSubjectBody(Self, subjectName),
           "ULL_RemoveDataSubject", << >>)

ULL_RemoveDataSubject ==
    \E subjectName \in RawDataNames \cup {NullPtr} :
        ULL_RemoveDataSubjectStep(subjectName)

\* ------------------------------------------------------------------------
\* Specification
\* ------------------------------------------------------------------------
Init ==
    /\ bInitialized = FALSE
    /\ ProviderName = ""
    /\ bLiveLinkReady = FALSE
    /\ LiveLinkProvider = NullProvider
    /\ bLiveLinkSourceCreated = FALSE
    /\ bGEngineLoopInitialized = FALSE
    /\ TransformSubjects = EmptyMap
    /\ DataSubjects = EmptyMap
    /\ NameCache = EmptyMap
    /\ calls = << >>
    /\ log = << >>
    /\ lastOp = "none"
    /\ ret = << >>
    /\ cycleCreates = 0
    /\ lock = NoThread
    /\ pc = [t \in Threads |-> Idle]
    /\ mock = MockConstructed
    /\ declared = {}
    /\ NotInitializedCount = 0
    /\ depth = 0

Next ==
    \/ ULL_Initialize
    \/ ULL_Shutdown
    \/ ULL_GetVersion
    \/ ULL_IsConnected
    \/ ULL_RegisterObject
    \/ ULL_RegisterObjectWithProperties
    \/ ULL_UpdateObject
    \/ ULL_UpdateObjectWithProperties
    \/ ULL_RemoveObject
    \/ ULL_RegisterDataSubject
    \/ ULL_UpdateDataSubject
    \/ ULL_RemoveDataSubject

Spec == Init /\ [][Next]_vars

\* ------------------------------------------------------------------------
\* Calling threads.  Every bridge method opens with
\* FScopeLock Lock(&CriticalSection) and releases the critical section when
\* it returns; an export that takes a subject name calls GetCachedName and
\* then the registry method, each under its own FScopeLock.  A thread makes
\* one call; calls and log hold what the calls of all threads did so far.
\* ------------------------------------------------------------------------
\* The calls a thread makes: exports, and FLiveLinkBridge::IsInitialized.
NamedOps == {"ULL_RegisterObject", "ULL_UpdateObject", "ULL_RemoveObject"}
LifecycleOps == {"ULL_Initialize", "ULL_Shutdown"}
ThreadOps == NamedOps \cup LifecycleOps \cup {"IsInitialized"}

\* The bridge as constructed, and after a first ULL_Initialize("Sim").
Constructed ==
    [bInitialized |-> FALSE, ProviderName |-> "", bLiveLinkReady |-> FALSE,
     LiveLinkProvider |-> NullProvider, bLiveLinkSourceCreated |-> FALSE,
     bGEngineLoopInitialized |-> FALSE, TransformSubjects |-> EmptyMap,
     DataSubjects |-> EmptyMap, NameCache |-> EmptyMap,
     calls |-> << >>, log |-> << >>, result |-> FALSE]
Initialized ==
    [ULL_InitializeBody(Constructed, "Sim", 0)
         EXCEPT !.calls = << >>, !.log = << >>, !.result = FALSE]

\* A step of thread t ends: the members take the values of the bridge
\* record, and its calls and conditions are added to those of the run.
Publish(b, op) ==
    /\ bInitialized' = b.bInitialized
    /\ ProviderName' = b.ProviderName
    /\ bLiveLinkReady' = b.bLiveLinkReady
    /\ LiveLinkProvider' = b.LiveLinkProvider
    /\ bLiveLinkSourceCreated' = b.bLiveLinkSourceCreated
    /\ bGEngineLoopInitialized' = b.bGEngineLoopInitialized
    /\ TransformSubjects' = b.TransformSubjects
    /\ DataSubjects' = b.DataSubjects
    /\ NameCache' = b.NameCache
    /\ calls' = calls \o b.calls
    /\ log' = log \o b.log
    /\ lastOp' = op
    /\ cycleCreates' = IF b.bInitialized THEN cycleCreates + CreatedIn(b.calls) ELSE 0
    /\ UNCHANGED <<ret, mock, declared, NotInitializedCount>>

\* The members and the history are left alone.
BridgeUnchanged ==
    UNCHANGED <<bInitialized, ProviderName, bLiveLinkReady, LiveLinkProvider,
                bLiveLinkSourceCreated, bGEngineLoopInitialized,
                TransformSubjects, DataSubjects, NameCache, calls, log, lastOp,
                ret, cycleCreates, mock, declared, NotInitializedCount, depth>>

\* The same, but for the count of open FScopeLocks.
BridgeUnchangedButDepth ==
    UNCHANGED <<bInitialized, ProviderName, bLiveLinkReady, LiveLinkProvider,
                bLiveLinkSourceCreated, bGEngineLoopInitialized,
                TransformSubjects, DataSubjects, NameCache, calls, log, lastOp,
                ret, cycleCreates, mock, declared, NotInitializedCount>>

\* Thread t enters a call with its arguments (a non-NULL subject name and a
\* non-NULL transform, so that the export reaches the bridge).
T_Call(t) ==
    /\ pc[t].at = "idle"
    /\ \E op \in ThreadOps, subjectName \in RawNames :
           pc' = [pc EXCEPT ![t] =
                     [Idle EXCEPT !.at = "called", !.op = op,
                                  !.name = IF op \in NamedOps
                                           THEN subjectName ELSE NullPtr]]
    /\ UNCHANGED lock
    /\ BridgeUnchanged

\* FScopeLock constructor in GetCachedName: t waits until the critical
\* section is free and takes it.
T_LockGetCachedName(t) ==
    /\ pc[t].at = "called"
    /\ pc[t].op \in NamedOps
    /\ lock = NoThread
    /\ lock' = t
    /\ pc' = [pc EXCEPT ![t].at = "GetCachedName"]
    /\ BridgeUnchanged

\* GetCachedName runs and returns; its FScopeLock is destroyed.
T_GetCachedName(t) ==
    /\ pc[t].at = "GetCachedName"
    /\ lock = t
    /\ Publish(GetCachedName(Self, pc[t].name), lastOp)
    /\ pc' = [pc EXCEPT ![t].at = "interned",
                        ![t].fname = CachedName(Self, pc[t].name)]
    /\ lock' = NoThread
    /\ UNCHANGED depth

\* FScopeLock constructor in the registry or lifecycle method.
T_LockMethod(t) ==
    /\ \/ pc[t].at = "interned"
       \/ pc[t].at = "called" /\ pc[t].op \in LifecycleOps
    /\ lock = NoThread
    /\ lock' = t
    /\ pc' = [pc EXCEPT ![t].at = "method"]
    /\ BridgeUnchanged

\* The bridge method the export of thread t calls, applied to the bridge.
MethodOf(t, b, createOk, preInit) ==
    IF pc[t].op = "ULL_RegisterObject"
    THEN RegisterTransformSubject(b, pc[t].fname, createOk)
    ELSE IF pc[t].op = "ULL_UpdateObject"
    THEN UpdateTransformSubject(b, pc[t].fname, ConvertToFTransform(Pose1), createOk)
    ELSE IF pc[t].op = "ULL_RemoveObject"
    THEN RemoveTransformSubject(b, pc[t].fname)
    ELSE IF pc[t].op = "ULL_Initialize"
    THEN Initialize(b, "Sim", preInit)
    ELSE Shutdown(b)

\* The method runs and returns; its FScopeLock is destroyed.
T_Method(t) ==
    /\ pc[t].at = "method"
    /\ lock = t
    /\ \E createOk \in CreateOutcomes, preInit \in {0, 1} :
           Publish(MethodOf(t, Self, createOk, preInit), pc[t].op)
    /\ pc' = [pc EXCEPT ![t].at = "done"]
    /\ lock' = NoThread
    /\ UNCHANGED depth

\* FLiveLinkBridge::IsInitialized is entered: no FScopeLock is constructed.
T_IsInitialized(t) ==
    /\ pc[t].at = "called"
    /\ pc[t].op = "IsInitialized"
    /\ pc' = [pc EXCEPT ![t].at = "IsInitialized"]
    /\ UNCHANGED lock
    /\ BridgeUnchanged

\* IsInitialized returns bInitialized.  While another thread is inside
\* Initialize or Shutdown, which write bInitialized, the read races with
\* the write and returns either value.
T_IsInitializedReturn(t) ==
    /\ pc[t].at = "IsInitialized"
    /\ \E v \in (IF \E u \in Threads \ {t} :
                        pc[u].at = "method" /\ pc[u].op \in LifecycleOps
                 THEN BOOLEAN ELSE {bInitialized}) :
           pc' = [pc EXCEPT ![t].at = "done", ![t].val = v]
    /\ UNCHANGED lock
    /\ BridgeUnchanged

ThreadInit ==
    /\ \E b \in {Constructed, Initialized} :
           /\ bInitialized = b.bInitialized
           /\ ProviderName = b.ProviderName
           /\ bLiveLinkReady = b.bLiveLinkReady
           /\ LiveLinkProvider = b.LiveLinkProvider
           /\ bLiveLinkSourceCreated = b.bLiveLinkSourceCreated
           /\ bGEngineLoopInitialized = b.bGEngineLoopInitialized
           /\ TransformSubjects = b.TransformSubjects
           /\ DataSubjects = b.DataSubjects
           /\ NameCache = b.NameCache
    /\ calls = << >>
    /\ log = << >>
    /\ lastOp = "none"
    /\ ret = << >>
    /\ cycleCreates = 0
    /\ lock = NoThread
    /\ pc = [t \in Threads |-> Idle]
    /\ mock = MockConstructed
    /\ declared = {}
    /\ NotInitializedCount = 0
    /\ depth = 0

ThreadNext ==
    \E t \in Threads :
        \/ T_Call(t)
        \/ T_LockGetCachedName(t)
        \/ T_GetCachedName(t)
        \/ T_LockMethod(t)
        \/ T_Method(t)
        \/ T_IsInitialized(t)
        \/ T_IsInitializedReturn(t)

ThreadSpec == ThreadInit /\ [][ThreadNext]_vars

\* ------------------------------------------------------------------------
\* The critical section as the threads take and leave it.
\* FCriticalSection is re-entrant: the thread that holds it may construct a
\* further FScopeLock, as UpdateTransformSubject does when it calls
\* RegisterTransformSubject, and the section is free again when the last
\* FScopeLock of that thread is destroyed.  depth counts the FScopeLocks
\* the holder has open.  A thread makes one call, as in ThreadSpec.
\* ------------------------------------------------------------------------
\* A thread that needs the critical section waits for a thread that is not
\* itself.
CanEnter_NotRecursive(t) == lock = NoThread

\* FCriticalSection::Lock returns at once for the thread that holds the
\* section and for a free section; any other thread waits.
CanEnter(t) == lock \in {NoThread, t}

\* FScopeLock constructor and destructor.
Enter(t) == CanEnter(t) /\ lock' = t /\ depth' = depth + 1
Leave(t) == lock' = (IF depth = 1 THEN NoThread ELSE lock) /\ depth' = depth - 1

\* The rest of UpdateTransformSubject without the test of
\* bLiveLinkSourceCreated.
UpdateTransformSubjectPush_NoSourceTest(b, SubjectName, Transform) ==
    Call(b, FrameData(SubjectName, Transform, << >>))

\* UpdateTransformSubject from the test of bLiveLinkSourceCreated on: the
\* frame is pushed if the bridge has a provider.
UpdateTransformSubjectPush(b, SubjectName, Transform) ==
    IF ~b.bLiveLinkSourceCreated
    THEN b
    ELSE Call(b, FrameData(SubjectName, Transform, << >>))

L_EnterGetCachedName(t) ==
    /\ pc[t].at = "called"
    /\ pc[t].op \in NamedOps
    /\ Enter(t)
    /\ pc' = [pc EXCEPT ![t].at = "GetCachedName"]
    /\ BridgeUnchangedButDepth

L_GetCachedName(t) ==
    /\ pc[t].at = "GetCachedName"
    /\ lock = t
    /\ Publish(GetCachedName(Self, pc[t].name), lastOp)
    /\ pc' = [pc EXCEPT ![t].at = "interned",
                        ![t].fname = CachedName(Self, pc[t].name)]
    /\ Leave(t)

L_EnterMethod(t) ==
    /\ \/ pc[t].at = "interned"
       \/ pc[t].at = "called" /\ pc[t].op \in LifecycleOps
    /\ Enter(t)
    /\ pc' = [pc EXCEPT ![t].at = "method"]
    /\ BridgeUnchangedButDepth

\* A method other than UpdateTransformSubject runs and returns.
L_Method(t) ==
    /\ pc[t].at = "method"
    /\ pc[t].op # "ULL_UpdateObject"
    /\ lock = t
    /\ \E createOk \in CreateOutcomes, preInit \in {0, 1} :
           Publish(MethodOf(t, Self, createOk, preInit), pc[t].op)
    /\ pc' = [pc EXCEPT ![t].at = "done"]
    /\ Leave(t)

\* UpdateTransformSubject up to the call of RegisterTransformSubject: it
\* returns when the bridge is not initialized, and goes on to the push when
\* the subject is registered.
L_UpdateTransformSubject(t) ==
    /\ pc[t].at = "method"
    /\ pc[t].op = "ULL_UpdateObject"
    /\ lock = t
    /\ IF ~bInitialized
       THEN /\ Publish(Self, pc[t].op)
            /\ pc' = [pc EXCEPT ![t].at = "done"]
            /\ Leave(t)
       ELSE IF MapContains(TransformSubjects, pc[t].fname)
       THEN /\ Publish(Self, pc[t].op)
            /\ pc' = [pc EXCEPT ![t].at = "push"]
            /\ UNCHANGED <<lock, depth>>
       ELSE /\ Publish(Log(Self, "UpdateTransformSubject: auto-registering",
                           pc[t].fname, 0, 0), pc[t].op)
            /\ pc' = [pc EXCEPT ![t].at = "autoRegister"]
            /\ UNCHANGED <<lock, depth>>

\* FScopeLock constructor in RegisterTransformSubject, called by
\* UpdateTransformSubject on the thread that holds the critical section.
L_EnterRegister(t) ==
    /\ pc[t].at = "autoRegister"
    /\ Enter(t)
    /\ pc' = [pc EXCEPT ![t].at = "RegisterTransformSubject"]
    /\ BridgeUnchangedButDepth

\* RegisterTransformSubject runs and returns to UpdateTransformSubject.
L_RegisterTransformSubject(t) ==
    /\ pc[t].at = "RegisterTransformSubject"
    /\ lock = t
    /\ \E createOk \in CreateOutcomes :
           Publish(RegisterTransformSubject(Self, pc[t].fname, createOk), pc[t].op)
    /\ pc' = [pc EXCEPT ![t].at = "push"]
    /\ Leave(t)

\* The rest of UpdateTransformSubject runs and the method returns.
L_Push(t) ==
    /\ pc[t].at = "push"
    /\ Publish(UpdateTransformSubjectPush(Self, pc[t].fname,
                                          ConvertToFTransform(Pose1)), pc[t].op)
    /\ pc' = [pc EXCEPT ![t].at = "done"]
    /\ Leave(t)

\* The steps thread t takes once it is inside a call.
L_Run(t) ==
    \/ L_EnterGetCachedName(t)
    \/ L_GetCachedName(t)
    \/ L_EnterMethod(t)
    \/ L_Method(t)
    \/ L_UpdateTransformSubject(t)
    \/ L_EnterRegister(t)
    \/ L_RegisterTransformSubject(t)
    \/ L_Push(t)
    \/ T_IsInitialized(t)
    \/ T_IsInitializedReturn(t)

LockNext == \E t \in Threads : T_Call(t) \/ L_Run(t)

LockSpec == ThreadInit /\ [][LockNext]_vars

\* The scheduler runs every thread that can take a step.
LockFairSpec == LockSpec /\ \A t \in Threads : WF_vars(L_Run(t))

\* ------------------------------------------------------------------------
\* The exports called with an empty subject name: the pointer is not NULL,
\* so every export passes its validation and hands the string to
\* GetCachedName.
\* ------------------------------------------------------------------------
EmptyName == ""

ULL_RegisterObject_EmptyName ==
    \E createOk \in CreateOutcomes : ULL_RegisterObjectStep(EmptyName, createOk)

ULL_RegisterObjectWithProperties_EmptyName ==
    \E propertyCount \in 0..MaxProps, createOk \in CreateOutcomes :
        ULL_RegisterObjectWithPropertiesStep(
            EmptyName, NameArray(propertyCount), propertyCount, createOk)

ULL_UpdateObject_EmptyName ==
    \E createOk \in CreateOutcomes : ULL_UpdateObjectStep(EmptyName, Pose1, createOk)

ULL_UpdateObjectWithProperties_EmptyName ==
    \E propertyCount \in 0..MaxProps :
        ULL_UpdateObjectWithPropertiesStep(
            EmptyName, Pose1, ValueArray(propertyCount), propertyCount)

ULL_RemoveObject_EmptyName == ULL_RemoveObjectStep(EmptyName)

ULL_RegisterDataSubject_EmptyName ==
    \E propertyCount \in 0..MaxProps :
        ULL_RegisterDataSubjectStep(EmptyName, NameArray(propertyCount), propertyCount)

ULL_UpdateDataSubject_EmptyName ==
    \E propertyCount \in 0..MaxProps :
        ULL_UpdateDataSubjectStep(EmptyName, ValueArray(propertyCount), propertyCount)

ULL_RemoveDataSubject_EmptyName == ULL_RemoveDataSubjectStep(EmptyName)

EmptyNameNext ==
    \/ Next
    \/ ULL_RegisterObject_EmptyName
    \/ ULL_RegisterObjectWithProperties_EmptyName
    \/ ULL_UpdateObject_EmptyName
    \/ ULL_UpdateObjectWithProperties_EmptyName
    \/ ULL_RemoveObject_EmptyName
    \/ ULL_RegisterDataSubject_EmptyName
    \/ ULL_UpdateDataSubject_EmptyName
    \/ ULL_RemoveDataSubject_EmptyName

EmptyNameSpec == Init /\ [][EmptyNameNext]_vars

\* ------------------------------------------------------------------------
\* The mock library (Mock/MockLiveLink.cpp): the same exports over five
\* static variables, keyed by the subject name as given.  The log file the
\* mock writes is not part of the model.
\* ------------------------------------------------------------------------
\* The return codes of the mock.
MOCK_OK == 0
MOCK_ERROR == 1
MOCK_NOT_INITIALIZED == 2
MOCK_VERSION == 1

\* The std::vector<std::string> the mock builds from propertyNames.
MockProperties(propertyNames, propertyCount) ==
    IF ~propertyNames.isNull /\ propertyCount > 0
    THEN [i \in 1..propertyCount |-> propertyNames.elems[i]]
    ELSE << >>

\* ULL_Initialize that succeeds again when the mock is already initialized.
Mock_ULL_InitializeReturn_Idempotent(m, providerName) ==
    IF providerName = NullPtr THEN MOCK_ERROR ELSE MOCK_OK

\* ULL_Initialize of the mock: the value returned, and the variables after.
Mock_ULL_InitializeReturn(m, providerName) ==
    IF providerName = NullPtr THEN MOCK_ERROR
    ELSE IF m.g_isInitialized THEN MOCK_ERROR
    ELSE MOCK_OK

Mock_ULL_InitializeBody(m, providerName) ==
    IF providerName = NullPtr THEN m
    ELSE IF m.g_isInitialized THEN m
    ELSE [m EXCEPT !.g_providerName = providerName,
                   !.g_isInitialized = TRUE,
                   !.g_transformObjects = {},
                   !.g_transformObjectProperties = EmptyMap,
                   !.g_dataSubjectProperties = EmptyMap]

Mock_ULL_ShutdownBody(m) ==
    [m EXCEPT !.g_isInitialized = FALSE,
              !.g_providerName = "",
              !.g_transformObjects = {},
              !.g_transformObjectProperties = EmptyMap,
              !.g_dataSubjectProperties = EmptyMap]

Mock_ULL_IsConnectedReturn(m) ==
    IF ~m.g_isInitialized THEN MOCK_NOT_INITIALIZED ELSE MOCK_OK

Mock_ULL_RegisterObjectBody(m, subjectName) ==
    IF subjectName = NullPtr THEN m
    ELSE IF ~m.g_isInitialized THEN m
    ELSE [m EXCEPT !.g_transformObjects = @ \cup {subjectName}]

Mock_ULL_RegisterObjectWithPropertiesBody(m, subjectName, propertyNames, propertyCount) ==
    IF subjectName = NullPtr THEN m
    ELSE IF ~m.g_isInitialized THEN m
    ELSE IF propertyCount < 0 THEN m
    ELSE [m EXCEPT !.g_transformObjects = @ \cup {subjectName},
                   !.g_transformObjectProperties =
                       IF MapContains(@, subjectName)
                       THEN [@ EXCEPT ![subjectName] =
                                MockProperties(propertyNames, propertyCount)]
                       ELSE MapAdd(@, subjectName,
                                   MockProperties(propertyNames, propertyCount))]

Mock_ULL_UpdateObjectBody(m, subjectName, transform) ==
    IF subjectName = NullPtr THEN m
    ELSE IF ~m.g_isInitialized THEN m
    ELSE [m EXCEPT !.g_transformObjects = @ \cup {subjectName}]

Mock_ULL_UpdateObjectWithPropertiesBody(m, subjectName, transform, propertyValues, propertyCount) ==
    IF subjectName = NullPtr THEN m
    ELSE IF ~m.g_isInitialized THEN m
    ELSE IF propertyCount < 0 THEN m
    ELSE IF /\ MapContains(m.g_transformObjectProperties, subjectName)
            /\ propertyCount # Len(m.g_transformObjectProperties[subjectName])
    THEN m
    ELSE [m EXCEPT !.g_transformObjects = @ \cup {subjectName}]

Mock_ULL_RemoveObjectBody(m, subjectName) ==
    IF subjectName = NullPtr THEN m
    ELSE IF ~m.g_isInitialized THEN m
    ELSE [m EXCEPT !.g_transformObjects = @ \ {subjectName},
                   !.g_transformObjectProperties =
                       IF MapContains(@, subjectName)
                       THEN MapRemove(@, subjectName) ELSE @]

Mock_ULL_RegisterDataSubjectBody(m, subjectName, propertyNames, propertyCount) ==
    IF subjectName = NullPtr THEN m
    ELSE IF ~m.g_isInitialized THEN m
    ELSE IF propertyCount < 0 THEN m
    ELSE [m EXCEPT !.g_dataSubjectProperties =
                       IF MapContains(@, subjectName)
                       THEN [@ EXCEPT ![subjectName] =
                                MockProperties(propertyNames, propertyCount)]
                       ELSE MapAdd(@, subjectName,
                                   MockProperties(propertyNames, propertyCount))]

Mock_ULL_UpdateDataSubjectBody(m, subjectName, propertyNames, propertyValues, propertyCount) ==
    IF subjectName = NullPtr THEN m
    ELSE IF ~m.g_isInitialized THEN m
    ELSE IF propertyCount < 0 THEN m
    ELSE IF MapContains(m.g_dataSubjectProperties, subjectName)
    THEN m
    ELSE IF ~propertyNames.isNull /\ propertyCount > 0
    THEN [m EXCEPT !.g_dataSubjectProperties =
                       MapAdd(@, subjectName,
                              MockProperties(propertyNames, propertyCount))]
    ELSE m

Mock_ULL_RemoveDataSubjectBody(m, subjectName) ==
    IF subjectName = NullPtr THEN m
    ELSE IF ~m.g_isInitialized THEN m
    ELSE [m EXCEPT !.g_dataSubjectProperties =
                       IF MapContains(@, subjectName)
                       THEN MapRemove(@, subjectName) ELSE @]

\* An export of the mock returns: the static variables take the values of
\* the record; the bridge is not involved.
MockReturn(m, op, r) ==
    /\ mock' = m
    /\ lastOp' = op
    /\ ret' = r
    /\ UNCHANGED <<bInitialized, ProviderName, bLiveLinkReady, LiveLinkProvider,
                   bLiveLinkSourceCreated, bGEngineLoopInitialized,
                   TransformSubjects, DataSubjects, NameCache, calls, log,
                   cycleCreates, lock, pc, declared, NotInitializedCount, depth>>

Mock_ULL_Initialize ==
    \E providerName \in ProviderNameInputs :
        MockReturn(Mock_ULL_InitializeBody(mock, providerName), "ULL_Initialize",
                   <<Mock_ULL_InitializeReturn(mock, providerName)>>)

Mock_ULL_Shutdown ==
    MockReturn(Mock_ULL_ShutdownBody(mock), "ULL_Shutdown", << >>)

Mock_ULL_GetVersion ==
    MockReturn(mock, "ULL_GetVersion", <<MOCK_VERSION>>)

Mock_ULL_IsConnected ==
    MockReturn(mock, "ULL_IsConnected", <<Mock_ULL_IsConnectedReturn(mock)>>)

Mock_ULL_RegisterObject ==
    \E subjectName \in RawNames \cup {NullPtr} :
        MockReturn(Mock_ULL_RegisterObjectBody(mock, subjectName),
                   "ULL_RegisterObject", << >>)

Mock_ULL_RegisterObjectWithProperties ==
    \E subjectName \in RawNames \cup {NullPtr}, propertyCount \in CountInputs :
        \E propertyNames \in NameArrayInputs(propertyCount) :
            MockReturn(Mock_ULL_RegisterObjectWithPropertiesBody(
                           mock, subjectName, propertyNames, propertyCount),
                       "ULL_RegisterObjectWithProperties", << >>)

Mock_ULL_UpdateObject ==
    \E subjectName \in RawNames \cup {NullPtr}, transform \in TransformInputs :
        MockReturn(Mock_ULL_UpdateObjectBody(mock, subjectName, transform),
                   "ULL_UpdateObject", << >>)

Mock_ULL_UpdateObjectWithProperties ==
    \E subjectName \in RawNames \cup {NullPtr}, transform \in TransformInputs,
       propertyCount \in CountInputs :
        \E propertyValues \in ValueArrayInputs(propertyCount) :
            MockReturn(Mock_ULL_UpdateObjectWithPropertiesBody(
                           mock, subjectName, transform, propertyValues, propertyCount),
                       "ULL_UpdateObjectWithProperties", << >>)

Mock_ULL_RemoveObject ==
    \E subjectName \in RawNames \cup {NullPtr} :
        MockReturn(Mock_ULL_RemoveObjectBody(mock, subjectName),
                   "ULL_RemoveObject", << >>)

Mock_ULL_RegisterDataSubject ==
    \E subjectName \in RawDataNames \cup {NullPtr}, propertyCount \in CountInputs :
        \E propertyNames \in NameArrayInputs(propertyCount) :
            MockReturn(Mock_ULL_RegisterDataSubjectBody(
                           mock, subjectName, propertyNames, propertyCount),
                       "ULL_RegisterDataSubject", << >>)

Mock_ULL_UpdateDataSubject ==
    \E subjectName \in RawDataNames \cup {NullPtr}, propertyCount \in CountInputs :
        \E propertyNames \in NameArrayInputs(propertyCount),
           propertyValues \in ValueArrayInputs(propertyCount) :
            MockReturn(Mock_ULL_UpdateDataSubjectBody(
                           mock, subjectName, propertyNames, propertyValues,
                           propertyCount),
                       "ULL_UpdateDataSubject", << >>)

Mock_ULL_RemoveDataSubject ==
    \E subjectName \in RawDataNames \cup {NullPtr} :
        MockReturn(Mock_ULL_RemoveDataSubjectBody(mock, subjectName),
                   "ULL_RemoveDataSubject", << >>)

MockNext ==
    \/ Mock_ULL_Initialize
    \/ Mock_ULL_Shutdown
    \/ Mock_ULL_GetVersion
    \/ Mock_ULL_IsConnected
    \/ Mock_ULL_RegisterObject
    \/ Mock_ULL_RegisterObjectWithProperties
    \/ Mock_ULL_UpdateObject
    \/ Mock_ULL_UpdateObjectWithProperties
    \/ Mock_ULL_RemoveObject
    \/ Mock_ULL_RegisterDataSubject
    \/ Mock_ULL_UpdateDataSubject
    \/ Mock_ULL_RemoveDataSubject

MockSpec == Init /\ [][MockNext]_vars

\* ------------------------------------------------------------------------
\* The provider's view of the transform subjects: declared holds the
\* subjects whose static data the provider of the bridge has been given and
\* not been asked to remove.  The lifecycle and transform exports are
\* called, with one subject name more than RawNames; calls and log hold
\* what the last export did.
\* ------------------------------------------------------------------------
TransportNames == {NamePool[i] : i \in 1..(NumNames + 1)}

\* The subjects the provider holds after the calls cs, made in that order,
\* when it held d before them: UpdateSubjectStaticData adds the subject,
\* RemoveSubject takes it away, and a provider that was just created, or
\* that was destroyed by Reset, holds none.
RECURSIVE DeclaredAfter(_, _)
DeclaredAfter(d, cs) ==
    IF cs = << >>
    THEN d
    ELSE LET c == Head(cs)
         IN DeclaredAfter(
                IF c.fn = "UpdateSubjectStaticData" THEN d \cup {c.subject}
                ELSE IF c.fn = "RemoveSubject" THEN d \ {c.subject}
                ELSE IF c.fn \in {"CreateLiveLinkProvider", "Reset"} THEN {}
                ELSE d,
                Tail(cs))

\* The export returns: the members take the values of the bridge record and
\* the provider has received the calls of the export.
ReturnDeclared(b, op, r) ==
    /\ bInitialized' = b.bInitialized
    /\ ProviderName' = b.ProviderName
    /\ bLiveLinkReady' = b.bLiveLinkReady
    /\ LiveLinkProvider' = b.LiveLinkProvider
    /\ bLiveLinkSourceCreated' = b.bLiveLinkSourceCreated
    /\ bGEngineLoopInitialized' = b.bGEngineLoopInitialized
    /\ TransformSubjects' = b.TransformSubjects
    /\ DataSubjects' = b.DataSubjects
    /\ NameCache' = b.NameCache
    /\ calls' = b.calls
    /\ log' = b.log
    /\ lastOp' = op
    /\ ret' = r
    /\ cycleCreates' = IF b.bInitialized THEN cycleCreates + CreatedIn(b.calls) ELSE 0
    /\ declared' = DeclaredAfter(declared, b.calls)
    /\ UNCHANGED <<lock, pc, mock, NotInitializedCount, depth>>

D_ULL_Initialize ==
    \E preInit \in {0, 1} :
        LET r == ULL_InitializeBody(Self, "Sim", preInit)
        IN ReturnDeclared(r, "ULL_Initialize", <<ULL_InitializeReturn(r)>>)

D_ULL_Shutdown ==
    ReturnDeclared(Shutdown(Self), "ULL_Shutdown", << >>)

D_ULL_RegisterObject ==
    \E subjectName \in TransportNames, createOk \in CreateOutcomes :
        ReturnDeclared(ULL_RegisterObjectBody(Self, subjectName, createOk),
                       "ULL_RegisterObject", << >>)

D_ULL_RegisterObjectWithProperties ==
    \E subjectName \in TransportNames, propertyCount \in 0..MaxProps,
       createOk \in CreateOutcomes :
        ReturnDeclared(ULL_RegisterObjectWithPropertiesBody(
                           Self, subjectName, NameArray(propertyCount),
                           propertyCount, createOk),
                       "ULL_RegisterObjectWithProperties", << >>)

D_ULL_UpdateObject ==
    \E subjectName \in TransportNames, createOk \in CreateOutcomes :
        ReturnDeclared(ULL_UpdateObjectBody(Self, subjectName, Pose1, createOk),
                       "ULL_UpdateObject", << >>)

D_ULL_UpdateObjectWithProperties ==
    \E subjectName \in TransportNames, propertyCount \in 0..MaxProps :
        ReturnDeclared(ULL_UpdateObjectWithPropertiesBody(
                           Self, subjectName, Pose1, ValueArray(propertyCount),
                           propertyCount),
                       "ULL_UpdateObjectWithProperties", << >>)

D_ULL_RemoveObject ==
    \E subjectName \in TransportNames :
        ReturnDeclared(ULL_RemoveObjectBody(Self, subjectName),
                       "ULL_RemoveObject", << >>)

DeclaredNext ==
    \/ D_ULL_Initialize
    \/ D_ULL_Shutdown
    \/ D_ULL_RegisterObject
    \/ D_ULL_RegisterObjectWithProperties
    \/ D_ULL_UpdateObject
    \/ D_ULL_UpdateObjectWithProperties
    \/ D_ULL_RemoveObject

DeclaredSpec == Init /\ [][DeclaredNext]_vars

\* The caller goes on registering and updating subjects for as long as a
\* registration or an update has something left to do; it is never bound
\* to remove a subject or to shut the bridge down.
DeclaredFairSpec ==
    /\ DeclaredSpec
    /\ WF_vars(D_ULL_RegisterObject)
    /\ WF_vars(D_ULL_RegisterObjectWithProperties)
    /\ WF_vars(D_ULL_UpdateObject)
    /\ WF_vars(D_ULL_UpdateObjectWithProperties)

\* ------------------------------------------------------------------------
\* The throttled report of UpdateTransformSubject on a bridge that is not
\* initialized.  NotInitializedCount is a static variable of the function:
\* it starts at 0 when the process starts, is incremented by every call that
\* finds the bridge not initialized and is never reset.  ULL_Initialize,
\* ULL_Shutdown and ULL_UpdateObject are called, the latter with a subject
\* name and a transform that are not NULL.
\* ------------------------------------------------------------------------
ThrottlePeriod == 60
\* The calls counted in a run of the model: two periods and one call.
MaxRejected == 2 * ThrottlePeriod + 1

\* The value of NotInitializedCount after UpdateTransformSubject was called
\* on bridge b with the count at c.
NotInitializedCountAfter(b, c) == IF ~b.bInitialized THEN c + 1 ELSE c

\* UpdateTransformSubject with its report of a bridge that is not
\* initialized: if (++NotInitializedCount % 60 == 1) UE_LOG(...).
UpdateTransformSubjectReporting(b, c, SubjectName, Transform, createOk) ==
    IF ~b.bInitialized
    THEN IF (c + 1) % ThrottlePeriod = 1
         THEN Log(b, "UpdateTransformSubject: not initialized", NAME_None, 0, c + 1)
         ELSE b
    ELSE UpdateTransformSubject(b, SubjectName, Transform, createOk)

\* The export returns: the members take the values of the bridge record and
\* the static counter the value c.
ReturnCounted(b, op, r, c) ==
    /\ bInitialized' = b.bInitialized
    /\ ProviderName' = b.ProviderName
    /\ bLiveLinkReady' = b.bLiveLinkReady
    /\ LiveLinkProvider' = b.LiveLinkProvider
    /\ bLiveLinkSourceCreated' = b.bLiveLinkSourceCreated
    /\ bGEngineLoopInitialized' = b.bGEngineLoopInitialized
    /\ TransformSubjects' = b.TransformSubjects
    /\ DataSubjects' = b.DataSubjects
    /\ NameCache' = b.NameCache
    /\ calls' = b.calls
    /\ log' = b.log
    /\ lastOp' = op
    /\ ret' = r
    /\ cycleCreates' = IF b.bInitialized THEN cycleCreates + CreatedIn(b.calls) ELSE 0
    /\ NotInitializedCount' = c
    /\ UNCHANGED <<lock, pc, mock, declared, depth>>

N_ULL_Initialize ==
    \E preInit \in {0, 1} :
        LET r == ULL_InitializeBody(Self, "Sim", preInit)
        IN ReturnCounted(r, "ULL_Initialize", <<ULL_InitializeReturn(r)>>,
                         NotInitializedCount)

N_ULL_Shutdown ==
    ReturnCounted(Shutdown(Self), "ULL_Shutdown", << >>, NotInitializedCount)

N_ULL_UpdateObject ==
    /\ NotInitializedCount < MaxRejected
    /\ \E subjectName \in RawNames, createOk \in CreateOutcomes :
           LET n == GetCachedName(Self, subjectName)
           IN ReturnCounted(
                  UpdateTransformSubjectReporting(
                      n, NotInitializedCount, CachedName(Self, subjectName),
                      ConvertToFTransform(Pose1), createOk),
                  "ULL_UpdateObject", << >>,
                  NotInitializedCountAfter(n, NotInitializedCount))

CountedNext ==
    \/ N_ULL_Initialize
    \/ N_ULL_Shutdown
    \/ N_ULL_UpdateObject

CountedSpec == Init /\ [][CountedNext]_vars

\* ------------------------------------------------------------------------
\* The bridge and the mock side by side: each export is called on both
\* libraries with the same arguments.  The arguments are well formed (no
\* NULL pointer, a count that is not negative and matches the array), the
\* engine runtime starts, and the provider name is "Sim".
\* ------------------------------------------------------------------------
\* The mock's ULL_UpdateObjectWithProperties drops the call because the
\* count differs from the number of property names it stored.
Mock_PropertyCountMismatch(m, subjectName, propertyCount) ==
    /\ MapContains(m.g_transformObjectProperties, subjectName)
    /\ propertyCount # Len(m.g_transformObjectProperties[subjectName])

\* The export has returned in both libraries.
ReturnBoth(b, m, op, r) ==
    /\ bInitialized' = b.bInitialized
    /\ ProviderName' = b.ProviderName
    /\ bLiveLinkReady' = b.bLiveLinkReady
    /\ LiveLinkProvider' = b.LiveLinkProvider
    /\ bLiveLinkSourceCreated' = b.bLiveLinkSourceCreated
    /\ bGEngineLoopInitialized' = b.bGEngineLoopInitialized
    /\ TransformSubjects' = b.TransformSubjects
    /\ DataSubjects' = b.DataSubjects
    /\ NameCache' = b.NameCache
    /\ calls' = b.calls
    /\ log' = b.log
    /\ lastOp' = op
    /\ ret' = r
    /\ cycleCreates' = IF b.bInitialized THEN cycleCreates + CreatedIn(b.calls) ELSE 0
    /\ mock' = m
    /\ UNCHANGED <<lock, pc, declared, NotInitializedCount, depth>>

B_ULL_Initialize ==
    LET r == ULL_InitializeBody(Self, "Sim", 0)
    IN ReturnBoth(r, Mock_ULL_InitializeBody(mock, "Sim"), "ULL_Initialize",
                  <<ULL_InitializeReturn(r), Mock_ULL_InitializeReturn(mock, "Sim")>>)

B_ULL_Shutdown ==
    ReturnBoth(Shutdown(Self), Mock_ULL_ShutdownBody(mock), "ULL_Shutdown", << >>)

B_ULL_RegisterObject ==
    \E subjectName \in RawNames, createOk \in CreateOutcomes :
        ReturnBoth(ULL_RegisterObjectBody(Self, subjectName, createOk),
                   Mock_ULL_RegisterObjectBody(mock, subjectName),
                   "ULL_RegisterObject", << >>)

B_ULL_RegisterObjectWithProperties ==
    \E subjectName \in RawNames, propertyCount \in 0..MaxProps,
       createOk \in CreateOutcomes :
        ReturnBoth(ULL_RegisterObjectWithPropertiesBody(
                       Self, subjectName, NameArray(propertyCount),
                       propertyCount, createOk),
                   Mock_ULL_RegisterObjectWithPropertiesBody(
                       mock, subjectName, NameArray(propertyCount), propertyCount),
                   "ULL_RegisterObjectWithProperties", << >>)

B_ULL_UpdateObject ==
    \E subjectName \in RawNames, createOk \in CreateOutcomes :
        ReturnBoth(ULL_UpdateObjectBody(Self, subjectName, Pose1, createOk),
                   Mock_ULL_UpdateObjectBody(mock, subjectName, Pose1),
                   "ULL_UpdateObject", << >>)

B_ULL_UpdateObjectWithProperties ==
    \E subjectName \in RawNames, propertyCount \in 0..MaxProps :
        ReturnBoth(ULL_UpdateObjectWithPropertiesBody(
                       Self, subjectName, Pose1, ValueArray(propertyCount),
                       propertyCount),
                   Mock_ULL_UpdateObjectWithPropertiesBody(
                       mock, subjectName, Pose1, ValueArray(propertyCount),
                       propertyCount),
                   "ULL_UpdateObjectWithProperties", << >>)

B_ULL_RemoveObject ==
    \E subjectName \in RawNames :
        ReturnBoth(ULL_RemoveObjectBody(Self, subjectName),
                   Mock_ULL_RemoveObjectBody(mock, subjectName),
                   "ULL_RemoveObject", << >>)

BothNext ==
    \/ B_ULL_Initialize
    \/ B_ULL_Shutdown
    \/ B_ULL_RegisterObject
    \/ B_ULL_RegisterObjectWithProperties
    \/ B_ULL_UpdateObject
    \/ B_ULL_UpdateObjectWithProperties
    \/ B_ULL_RemoveObject

BothSpec == Init /\ [][BothNext]_vars

\* ------------------------------------------------------------------------
\* Properties
\* ------------------------------------------------------------------------
\* The members of a bridge record, and the members other than the name
\* cache.
MembersOf(b) ==
    <<b.bInitialized, b.ProviderName, b.bLiveLinkReady, b.LiveLinkProvider,
      b.bLiveLinkSourceCreated, b.bGEngineLoopInitialized, b.TransformSubjects,
      b.DataSubjects, b.NameCache>>
CoreOf(b) ==
    <<b.bInitialized, b.ProviderName, b.bLiveLinkReady, b.LiveLinkProvider,
      b.bLiveLinkSourceCreated, b.bGEngineLoopInitialized, b.TransformSubjects,
      b.DataSubjects>>

Logged(msg) == \E i \in 1..Len(log) : log[i].msg = msg
LoggedFor(msg, subject) ==
    \E i \in 1..Len(log) : log[i].msg = msg /\ log[i].subject = subject
Sent(fn) == \E i \in 1..Len(calls) : calls[i].fn = fn

\* Every property below that speaks of one call is stated for the bridge in
\* its current state: whatever state the bridge has reached, the call made
\* next with the given arguments has the stated effect.

\* C1: registering a transform subject that is already in TransformSubjects,
\* with or without properties and with any schema, changes nothing in the
\* bridge: the record keeps the schema and ExpectedPropertyCount of the
\* first registration and no call reaches the transport (in particular no
\* second static-data declaration).
C1_ReRegisterIsNoOp ==
    \A subjectName \in RawNames, n \in 0..MaxProps, createOk \in BOOLEAN :
        MapContains(TransformSubjects, FName(subjectName))
        => LET k == FName(subjectName)
               r1 == ULL_RegisterObjectBody(Self, subjectName, createOk)
               r2 == ULL_RegisterObjectWithPropertiesBody(
                         Self, subjectName, NameArray(n), n, createOk)
           IN /\ r1.TransformSubjects[k] = TransformSubjects[k]
              /\ r2.TransformSubjects[k] = TransformSubjects[k]
              /\ CoreOf(r1) = CoreOf(Self)
              /\ CoreOf(r2) = CoreOf(Self)
              /\ r1.calls = << >>
              /\ r2.calls = << >>

\* A plain registration was just rejected as already registered for a
\* subject whose record holds a schema of MaxProps names.
C1_Witness ==
    /\ lastOp = "ULL_RegisterObject"
    /\ \E k \in DOMAIN TransformSubjects :
          /\ LoggedFor("RegisterTransformSubject: already registered", k)
          /\ TransformSubjects[k].ExpectedPropertyCount = MaxProps
          /\ Len(TransformSubjects[k].PropertyNames) = MaxProps
    /\ calls = << >>

C3_ShutdownClearsAll ==
    bInitialized
    => LET r == Shutdown(Self)
       IN /\ ~r.bInitialized
          /\ r.TransformSubjects = EmptyMap
          /\ r.DataSubjects = EmptyMap
          /\ r.NameCache = EmptyMap
          /\ r.ProviderName = ""
          /\ r.LiveLinkProvider = NullProvider
          /\ ~r.bLiveLinkSourceCreated
          /\ r.calls = IF LiveLinkProvider = ValidProvider
                       THEN <<[fn |-> "Reset"]>> ELSE << >>

\* Shutdown has just reset an existing provider.
C3_Witness ==
    /\ lastOp = "ULL_Shutdown"
    /\ calls = <<[fn |-> "Reset"]>>
    /\ ~bInitialized
    /\ NameCache = EmptyMap

\* What a registry export may not touch while the bridge is uninitialized.
Untouched(r) ==
    /\ r.TransformSubjects = TransformSubjects
    /\ r.DataSubjects = DataSubjects
    /\ r.LiveLinkProvider = LiveLinkProvider
    /\ r.bLiveLinkSourceCreated = bLiveLinkSourceCreated
    /\ r.bInitialized = bInitialized
    /\ r.bLiveLinkReady = bLiveLinkReady
    /\ r.ProviderName = ProviderName
    /\ r.calls = << >>

\* C4: while the bridge is uninitialized every registry export leaves both
\* maps, the provider and the bridge state as they are and calls nothing on
\* the transport.
C4_UninitializedNoOp ==
    ~bInitialized
    => \A subjectName \in RawNames \cup {NullPtr}, transform \in TransformInputs,
          n \in CountInputs, createOk \in BOOLEAN :
          \A names \in NameArrayInputs(n), values \in ValueArrayInputs(n) :
             /\ Untouched(ULL_RegisterObjectBody(Self, subjectName, createOk))
             /\ Untouched(ULL_RegisterObjectWithPropertiesBody(
                              Self, subjectName, names, n, createOk))
             /\ Untouched(ULL_UpdateObjectBody(Self, subjectName, transform, createOk))
             /\ Untouched(ULL_UpdateObjectWithPropertiesBody(
                              Self, subjectName, transform, values, n))
             /\ Untouched(ULL_RemoveObjectBody(Self, subjectName))
             /\ Untouched(ULL_RegisterDataSubjectBody(Self, subjectName, names, n))
             /\ Untouched(ULL_UpdateDataSubjectBody(Self, subjectName, values, n))
             /\ Untouched(ULL_RemoveDataSubjectBody(Self, subjectName))

\* A registration was just ignored because the bridge is not initialized.
C4_Witness ==
    /\ ~bInitialized
    /\ lastOp = "ULL_RegisterDataSubject"
    /\ Logged("RegisterDataSubject: not initialized")
    /\ DataSubjects = EmptyMap

\* The bridge record as the next call finds it: the members of b, no call
\* made and nothing reported yet.
Fresh(b) == [b EXCEPT !.calls = << >>, !.log = << >>, !.result = FALSE]

\* The calls ULL_UpdateObject makes for a subject TransformSubjects does not
\* hold yet when the provider can be had: the provider is created unless it
\* exists, the subject is declared with no property names, the frame goes
\* out last.
AutoRegisterCalls(k, pose) ==
    (IF bLiveLinkSourceCreated
     THEN << >>
     ELSE <<[fn |-> "CreateLiveLinkProvider", name |-> ProviderName, ok |-> TRUE]>>)
    \o <<StaticData(k, << >>),
         FrameData(k, [Rotation |-> pose.rotation, Translation |-> pose.position,
                       Scale3D |-> pose.scale], << >>)>>

\* C5 as the specification states it: ULL_UpdateObject for a subject that is
\* not in TransformSubjects of an initialized bridge registers it with the
\* empty schema and pushes the pose frame, whatever the outcome of the
\* provider creation it may trigger.
C5_AutoRegisterAlwaysPushes ==
    \A subjectName \in RawNames, pose \in TransformInputs \ {NullTransform},
       createOk \in BOOLEAN :
        (bInitialized /\ ~MapContains(TransformSubjects, FName(subjectName)))
        => LET k == FName(subjectName)
               r == ULL_UpdateObjectBody(Self, subjectName, pose, createOk)
           IN /\ r.TransformSubjects = MapAdd(TransformSubjects, k, FSubjectInfoDefault)
              /\ \E i \in 1..Len(r.calls) : r.calls[i].fn = "UpdateSubjectFrameData"

\* C5: ULL_UpdateObject for a subject that is not in TransformSubjects of an
\* initialized bridge always inserts the record with the empty schema
\* (ExpectedPropertyCount = 0).  The pose frame follows, after the static
\* declaration, exactly when a provider exists once the registration is
\* done; when the provider cannot be created only the record is inserted and
\* no frame is pushed.  Afterwards ULL_UpdateObjectWithProperties for that
\* subject is dropped for every value list whose length is not 0.
C5_AutoRegisterThenPush ==
    \A subjectName \in RawNames, pose \in TransformInputs \ {NullTransform},
       createOk \in BOOLEAN :
        (bInitialized /\ ~MapContains(TransformSubjects, FName(subjectName)))
        => LET k == FName(subjectName)
               r == ULL_UpdateObjectBody(Self, subjectName, pose, createOk)
           IN /\ r.TransformSubjects = MapAdd(TransformSubjects, k, FSubjectInfoDefault)
              /\ r.TransformSubjects[k].ExpectedPropertyCount = 0
              /\ r.TransformSubjects[k].PropertyNames = << >>
              /\ r.bLiveLinkSourceCreated = (bLiveLinkSourceCreated \/ createOk)
              /\ r.calls = IF bLiveLinkSourceCreated \/ createOk
                           THEN AutoRegisterCalls(k, pose)
                           ELSE <<[fn |-> "CreateLiveLinkProvider",
                                   name |-> ProviderName, ok |-> FALSE]>>
              /\ \A n \in 1..MaxProps, pose2 \in TransformInputs :
                    LET u == ULL_UpdateObjectWithPropertiesBody(
                                 Fresh(r), subjectName, pose2, ValueArray(n), n)
                    IN /\ u.calls = << >>
                       /\ MembersOf(u) = MembersOf(r)

\* An update has just registered its subject and pushed the pose frame.
C5_Witness ==
    /\ lastOp = "ULL_UpdateObject"
    /\ \E k \in DOMAIN TransformSubjects :
          /\ LoggedFor("UpdateTransformSubject: auto-registering", k)
          /\ TransformSubjects[k] = FSubjectInfoDefault
          /\ Len(calls) >= 2
          /\ calls[Len(calls) - 1] = StaticData(k, << >>)
          /\ calls[Len(calls)].fn = "UpdateSubjectFrameData"
          /\ calls[Len(calls)].subject = k

\* C6: for a subject registered with a schema of N names,
\* ULL_UpdateObjectWithProperties with a value list of any other length is
\* dropped: nothing is sent to the provider, not even the pose, and the
\* record (every member, in fact) is as before, so it still reports N.  A
\* negative count stands for the empty list.
C6_MismatchDropped ==
    \A subjectName \in RawNames, pose \in TransformInputs, n \in CountInputs :
        LET k == FName(subjectName)
            len == IF n < 0 THEN 0 ELSE n
        IN (/\ bInitialized
            /\ MapContains(TransformSubjects, k)
            /\ TransformSubjects[k].ExpectedPropertyCount # len)
           => LET r == ULL_UpdateObjectWithPropertiesBody(
                           Self, subjectName, pose, ValueArray(n), n)
              IN /\ r.calls = << >>
                 /\ r.TransformSubjects = TransformSubjects
                 /\ r.TransformSubjects[k].ExpectedPropertyCount
                        = Len(TransformSubjects[k].PropertyNames)
                 /\ MembersOf(r) = MembersOf(Self)

\* An update was just dropped for its count although the provider exists.
C6_Witness ==
    /\ lastOp = "ULL_UpdateObjectWithProperties"
    /\ bLiveLinkSourceCreated
    /\ calls = << >>
    /\ \E i \in 1..Len(log) :
          /\ log[i].msg = "UpdateTransformSubjectWithProperties: property count mismatch"
          /\ log[i].expected # log[i].got
          /\ log[i].subject \in DOMAIN TransformSubjects
          /\ TransformSubjects[log[i].subject].ExpectedPropertyCount = log[i].expected

\* C7: once the provider exists and a subject is registered with a schema of
\* N names, ULL_UpdateObjectWithProperties with a pose and exactly N values
\* sends exactly one frame for that subject, carrying the converted pose and
\* the N values in order, and changes no member.
C7_MatchingCountPushed ==
    \A subjectName \in RawNames, pose \in TransformInputs \ {NullTransform},
       n \in 0..MaxProps :
        LET k == FName(subjectName)
        IN (/\ bInitialized
            /\ bLiveLinkSourceCreated
            /\ MapContains(TransformSubjects, k)
            /\ TransformSubjects[k].ExpectedPropertyCount = n)
           => LET r == ULL_UpdateObjectWithPropertiesBody(
                           Self, subjectName, pose, ValueArray(n), n)
              IN /\ r.calls = <<[fn |-> "UpdateSubjectFrameData", subject |-> k,
                                 transform |-> [Rotation |-> pose.rotation,
                                                Translation |-> pose.position,
                                                Scale3D |-> pose.scale],
                                 values |-> [i \in 1..n |-> i]]>>
                 /\ MembersOf(r) = MembersOf(Self)

\* One frame with MaxProps values has just gone out for a subject registered
\* with MaxProps names.
C7_Witness ==
    /\ lastOp = "ULL_UpdateObjectWithProperties"
    /\ Len(calls) = 1
    /\ calls[1].fn = "UpdateSubjectFrameData"
    /\ Len(calls[1].values) = MaxProps
    /\ calls[1].subject \in DOMAIN TransformSubjects
    /\ TransformSubjects[calls[1].subject].ExpectedPropertyCount = MaxProps

\* C8: ULL_UpdateObjectWithProperties for a subject that is not in
\* TransformSubjects of an initialized bridge is not stopped by the count
\* validation, whatever the number of values: the call reports that it
\* cannot validate, registers nothing, goes on to the push, and the frame
\* with the pose and all the values reaches the provider whenever there is
\* one.
C8_UnregisteredNotValidated ==
    \A subjectName \in RawNames, pose \in TransformInputs \ {NullTransform},
       n \in CountInputs :
        LET k == FName(subjectName)
            len == IF n < 0 THEN 0 ELSE n
        IN (bInitialized /\ ~MapContains(TransformSubjects, k))
           => LET r == ULL_UpdateObjectWithPropertiesBody(
                           Self, subjectName, pose, ValueArray(n), n)
              IN /\ r.log = <<[msg |-> "UpdateTransformSubjectWithProperties: not registered",
                               subject |-> k, expected |-> 0, got |-> 0]>>
                 /\ r.TransformSubjects = TransformSubjects
                 /\ CoreOf(r) = CoreOf(Self)
                 /\ r.calls = IF bLiveLinkSourceCreated
                              THEN <<[fn |-> "UpdateSubjectFrameData", subject |-> k,
                                      transform |-> [Rotation |-> pose.rotation,
                                                     Translation |-> pose.position,
                                                     Scale3D |-> pose.scale],
                                      values |-> [i \in 1..len |-> i]]>>
                              ELSE << >>

\* A frame with values has just gone out for a subject that is not
\* registered.
C8_Witness ==
    /\ lastOp = "ULL_UpdateObjectWithProperties"
    /\ Len(calls) = 1
    /\ calls[1].fn = "UpdateSubjectFrameData"
    /\ Len(calls[1].values) = MaxProps
    /\ calls[1].subject \notin DOMAIN TransformSubjects
    /\ LoggedFor("UpdateTransformSubjectWithProperties: not registered",
                 calls[1].subject)

\* What ULL_RemoveObject reports on its way: none of it is an error.
RemoveReports ==
    {"RemoveTransformSubject: removed", "RemoveTransformSubject: not found",
     "RemoveTransformSubject: not initialized"}

\* C9 as the specification states it: ULL_RemoveObject for a subject that is
\* in TransformSubjects erases the record and asks the transport to remove
\* the subject; for a subject that is not there it changes nothing and
\* calls nothing.
C9_RemoveAlwaysAsksTransport ==
    \A subjectName \in RawNames :
        LET k == FName(subjectName)
            r == ULL_RemoveObjectBody(Self, subjectName)
        IN IF MapContains(TransformSubjects, k)
           THEN /\ r.TransformSubjects = MapRemove(TransformSubjects, k)
                /\ r.calls = <<[fn |-> "RemoveSubject", subject |-> k]>>
           ELSE /\ CoreOf(r) = CoreOf(Self)
                /\ r.calls = << >>

\* C9: ULL_RemoveObject for a subject that is in TransformSubjects erases
\* the record and leaves every other record and member alone; it asks the
\* provider to remove the subject exactly when a provider exists (a record
\* kept while the provider could not be created is erased with no transport
\* call).  For a subject that is not there it changes neither map nor the
\* provider, calls nothing and reports no error; only the name cache may
\* take the name.  A second removal right after the first changes nothing.
C9_RemoveErasesAndIsIdempotent ==
    \A subjectName \in RawNames :
        LET k == FName(subjectName)
            r == ULL_RemoveObjectBody(Self, subjectName)
            r2 == ULL_RemoveObjectBody(Fresh(r), subjectName)
        IN /\ IF MapContains(TransformSubjects, k)
              THEN /\ r.TransformSubjects = MapRemove(TransformSubjects, k)
                   /\ [r EXCEPT !.TransformSubjects = TransformSubjects,
                                !.calls = << >>, !.log = << >>] = Self
                   /\ r.calls = IF LiveLinkProvider = ValidProvider
                                THEN <<[fn |-> "RemoveSubject", subject |-> k]>>
                                ELSE << >>
              ELSE /\ CoreOf(r) = CoreOf(Self)
                   /\ r.NameCache = GetCachedName(Self, subjectName).NameCache
                   /\ r.calls = << >>
           /\ \A i \in 1..Len(r.log) : r.log[i].msg \in RemoveReports
           /\ ~MapContains(r.TransformSubjects, k)
           /\ MembersOf(r2) = MembersOf(r)
           /\ r2.calls = << >>

\* A removal has just erased a record and told the provider.
C9_Witness ==
    /\ lastOp = "ULL_RemoveObject"
    /\ Len(calls) = 1
    /\ calls[1].fn = "RemoveSubject"
    /\ calls[1].subject \notin DOMAIN TransformSubjects
    /\ LoggedFor("RemoveTransformSubject: removed", calls[1].subject)

NoProviderAfter(r) ==
    /\ r.LiveLinkProvider = NullProvider
    /\ ~r.bLiveLinkSourceCreated
    /\ \A i \in 1..Len(r.calls) : r.calls[i].fn # "CreateLiveLinkProvider"

CreatedBy(r) ==
    /\ r.LiveLinkProvider = ValidProvider
    /\ r.bLiveLinkSourceCreated
    /\ Len(r.calls) >= 1
    /\ r.calls[1] = [fn |-> "CreateLiveLinkProvider", name |-> ProviderName,
                     ok |-> TRUE]
    /\ \A i \in 2..Len(r.calls) : r.calls[i].fn # "CreateLiveLinkProvider"

C11_OneProviderPerCycle ==
    /\ cycleCreates <= 1
    /\ (cycleCreates = 1) <=> (bInitialized /\ LiveLinkProvider = ValidProvider)
    /\ bInitialized
       => LET s == Shutdown(Self)
          IN /\ s.LiveLinkProvider = NullProvider
             /\ ~s.bLiveLinkSourceCreated
             /\ CreatedIn(s.calls) = 0
             /\ (LiveLinkProvider = ValidProvider)
                   <=> (\E i \in 1..Len(s.calls) : s.calls[i] = [fn |-> "Reset"])
             /\ \A providerName \in ProviderNameInputs \ {NullPtr, ""},
                   preInit \in {0, 1} :
                   LET i == ULL_InitializeBody(Fresh(s), providerName, preInit)
                   IN /\ i.bInitialized
                      /\ i.LiveLinkProvider = NullProvider
                      /\ ~i.bLiveLinkSourceCreated
                      /\ i.calls = << >>
                      /\ \A subjectName \in RawNames :
                            LET r == ULL_RegisterObjectBody(Fresh(i), subjectName, TRUE)
                            IN /\ r.LiveLinkProvider = ValidProvider
                               /\ CreatedIn(r.calls) = 1
                               /\ r.calls[1] = [fn |-> "CreateLiveLinkProvider",
                                                name |-> providerName, ok |-> TRUE]

\* A subject was just registered and declared on the provider an earlier
\* registration of this cycle created: no second provider was asked for.
C11_Witness ==
    /\ lastOp \in {"ULL_RegisterObject", "ULL_RegisterObjectWithProperties"}
    /\ cycleCreates = 1
    /\ Len(calls) = 1
    /\ calls[1].fn = "UpdateSubjectStaticData"
    /\ calls[1].subject \in DOMAIN TransformSubjects

\* C12: ULL_IsConnected tells the three situations apart: it returns
\* ULL_NOT_INITIALIZED for an uninitialized bridge, ULL_OK when a provider
\* exists, and ULL_NOT_CONNECTED for an initialized bridge that has no
\* provider yet.
C12_ThreeStatuses ==
    lastOp = "ULL_IsConnected"
    => ret = <<IF ~bInitialized THEN ULL_NOT_INITIALIZED
               ELSE IF bLiveLinkSourceCreated /\ LiveLinkProvider = ValidProvider
               THEN ULL_OK
               ELSE ULL_NOT_CONNECTED>>

\* C13: when CreateLiveLinkProvider returns no valid provider during the
\* registration of a new transform subject, the bridge is left without a
\* provider, nothing is declared on the transport, the failure is reported,
\* and the record is inserted all the same with the schema the caller
\* passed: the empty one for ULL_RegisterObject, the given names and their
\* count for ULL_RegisterObjectWithProperties.
C13_FailedCreationStillRecords ==
    \A subjectName \in RawNames, n \in 0..MaxProps :
        LET k == FName(subjectName)
            failed == <<[fn |-> "CreateLiveLinkProvider", name |-> ProviderName,
                         ok |-> FALSE]>>
        IN (bInitialized /\ ~bLiveLinkSourceCreated
               /\ ~MapContains(TransformSubjects, k))
           => LET r1 == ULL_RegisterObjectBody(Self, subjectName, FALSE)
                  r2 == ULL_RegisterObjectWithPropertiesBody(
                            Self, subjectName, NameArray(n), n, FALSE)
              IN /\ r1.calls = failed
                 /\ r2.calls = failed
                 /\ r1.LiveLinkProvider = NullProvider /\ ~r1.bLiveLinkSourceCreated
                 /\ r2.LiveLinkProvider = NullProvider /\ ~r2.bLiveLinkSourceCreated
                 /\ r1.TransformSubjects
                       = MapAdd(TransformSubjects, k,
                                [PropertyNames |-> << >>, ExpectedPropertyCount |-> 0])
                 /\ r2.TransformSubjects
                       = MapAdd(TransformSubjects, k,
                                [PropertyNames |-> [i \in 1..n |-> FName(RawPropName)],
                                 ExpectedPropertyCount |-> n])
                 /\ \E i \in 1..Len(r1.log) : r1.log[i].msg = "EnsureLiveLinkSource: failed"
                 /\ \E i \in 1..Len(r2.log) : r2.log[i].msg = "EnsureLiveLinkSource: failed"
                 /\ r1.bInitialized /\ r2.bInitialized
                 /\ r1.DataSubjects = DataSubjects /\ r2.DataSubjects = DataSubjects

\* A registration with MaxProps names has just failed to get a provider and
\* left its record behind.
C13_Witness ==
    /\ lastOp = "ULL_RegisterObjectWithProperties"
    /\ Logged("EnsureLiveLinkSource: failed")
    /\ LiveLinkProvider = NullProvider
    /\ ~bLiveLinkSourceCreated
    /\ \E k \in DOMAIN TransformSubjects :
          /\ LoggedFor("RegisterTransformSubjectWithProperties: source not available", k)
          /\ TransformSubjects[k].ExpectedPropertyCount = MaxProps

\* A call that asked the factory for a provider.
Attempts(r) == \E i \in 1..Len(r.calls) : r.calls[i].fn = "CreateLiveLinkProvider"

\* C14: once a creation of the provider has failed (the bridge is
\* initialized, holds a record and has no provider), every later
\* registration call, of a transform subject or of a data subject, asks the
\* factory again, and no other operation does.
C14_EveryRegistrationRetries ==
    (bInitialized /\ ~bLiveLinkSourceCreated /\ TransformSubjects # EmptyMap)
    => /\ \A subjectName \in RawNames, n \in 0..MaxProps, createOk \in BOOLEAN :
             /\ Attempts(ULL_RegisterObjectBody(Self, subjectName, createOk))
             /\ Attempts(ULL_RegisterObjectWithPropertiesBody(
                             Self, subjectName, NameArray(n), n, createOk))
       /\ \A subjectName \in RawDataNames, n \in 0..MaxProps :
             Attempts(ULL_RegisterDataSubjectBody(Self, subjectName, NameArray(n), n))
       /\ \A subjectName \in RawNames, n \in CountInputs :
             /\ ~Attempts(ULL_UpdateObjectWithPropertiesBody(
                              Self, subjectName, Pose1, ValueArray(n), n))
             /\ ~Attempts(ULL_RemoveObjectBody(Self, subjectName))
       /\ ~Attempts(Shutdown(Self))

\* C15: for an initialized bridge, whatever it holds, Shutdown followed by
\* Initialize with a valid provider name starts afresh.  The connection
\* status goes from ULL_OK to ULL_NOT_INITIALIZED and back to ULL_OK, the
\* second Initialize succeeds, no record of either map survives, and
\* ULL_UpdateObject for any name, registered before or not, registers it
\* anew with the empty schema.
C15_ShutdownInitializeResets ==
    bInitialized
    => LET s == Shutdown(Self)
       IN /\ GetConnectionStatus(Self) = ULL_OK
          /\ GetConnectionStatus(s) = ULL_NOT_INITIALIZED
          /\ \A providerName \in ProviderNameInputs \ {NullPtr, ""},
                preInit \in {0, 1} :
                LET i == ULL_InitializeBody(Fresh(s), providerName, preInit)
                IN /\ ULL_InitializeReturn(i) = ULL_OK
                   /\ GetConnectionStatus(i) = ULL_OK
                   /\ i.ProviderName = providerName
                   /\ i.TransformSubjects = EmptyMap
                   /\ i.DataSubjects = EmptyMap
                   /\ \A subjectName \in RawNames, createOk \in BOOLEAN :
                         LET k == FName(subjectName)
                             u == ULL_UpdateObjectBody(
                                      Fresh(i), subjectName, Pose1, createOk)
                         IN /\ u.TransformSubjects
                                  = MapAdd(EmptyMap, k,
                                           [PropertyNames |-> << >>,
                                            ExpectedPropertyCount |-> 0])
                            /\ u.log[1] = [msg |-> "UpdateTransformSubject: auto-registering",
                                           subject |-> k, expected |-> 0, got |-> 0]

\* Initialize has just brought the bridge up a second time: it succeeded
\* without calling PreInit, which only a bridge that was initialized and
\* shut down before can do.
C15_Witness ==
    /\ lastOp = "ULL_Initialize"
    /\ ret = <<ULL_OK>>
    /\ calls = << >>
    /\ log = << >>
    /\ bInitialized
    /\ TransformSubjects = EmptyMap
    /\ DataSubjects = EmptyMap
    /\ LiveLinkProvider = NullProvider

\* C18: ULL_Initialize with a NULL or an empty provider name returns
\* ULL_ERROR and changes no member (bridge state, provider name, maps,
\* provider) and calls nothing, PreInit included, whether the bridge is
\* initialized or not.
C18_EmptyProviderNameRejected ==
    \A providerName \in {NullPtr, ""}, preInit \in {0, 1} :
        LET r == ULL_InitializeBody(Self, providerName, preInit)
        IN /\ ULL_InitializeReturn(r) = ULL_ERROR
           /\ MembersOf(r) = MembersOf(Self)
           /\ r.bInitialized = bInitialized
           /\ r.ProviderName = ProviderName
           /\ r.calls = << >>
           /\ Len(r.log) = 1
           /\ r.log[1].msg \in {"ULL_Initialize: providerName is NULL",
                                "ULL_Initialize: providerName is empty"}

\* An initialized bridge that holds a subject has just turned down an empty
\* provider name.
C18_Witness ==
    /\ lastOp = "ULL_Initialize"
    /\ ret = <<ULL_ERROR>>
    /\ Logged("ULL_Initialize: providerName is empty")
    /\ bInitialized
    /\ ProviderName \in {"Sim", "Other"}
    /\ TransformSubjects # EmptyMap

\* C19: Shutdown can be called in any state.  On an uninitialized bridge it
\* reports that there is nothing to do and changes no member, the name
\* cache included.  On an initialized bridge that never got a provider
\* (records kept locally after a failed creation, or none) it calls nothing
\* on the absent provider, clears the maps, the name cache and the provider
\* name and leaves the bridge uninitialized.  A second Shutdown after any
\* Shutdown changes nothing.
C19_ShutdownAlwaysSafe ==
    LET s == Shutdown(Self)
        s2 == Shutdown(Fresh(s))
    IN /\ ~bInitialized
          => /\ MembersOf(s) = MembersOf(Self)
             /\ s.calls = << >>
             /\ s.log = <<[msg |-> "Shutdown: not initialized", subject |-> NAME_None,
                           expected |-> 0, got |-> 0]>>
       /\ (bInitialized /\ ~bLiveLinkSourceCreated)
          => /\ s.calls = << >>
             /\ ~s.bInitialized
             /\ ~s.bLiveLinkReady
             /\ s.TransformSubjects = EmptyMap
             /\ s.DataSubjects = EmptyMap
             /\ s.NameCache = EmptyMap
             /\ s.ProviderName = ""
             /\ s.LiveLinkProvider = NullProvider
       /\ ~s.bInitialized
       /\ MembersOf(s2) = MembersOf(s)
       /\ s2.calls = << >>

\* Shutdown has just cleared records that were kept without a provider.
C19_Witness ==
    /\ lastOp = "ULL_Shutdown"
    /\ ~bInitialized
    /\ calls = << >>
    /\ \E i \in 1..Len(log) :
          /\ log[i].msg = "Shutdown: clearing"
          /\ log[i].expected >= 1
    /\ TransformSubjects = EmptyMap
    /\ NameCache = EmptyMap

\* C20: every export that takes a property count turns a negative count
\* down: ULL_RegisterObjectWithProperties, ULL_UpdateObjectWithProperties,
\* ULL_RegisterDataSubject and ULL_UpdateDataSubject called with a negative
\* count change no map, no flag and no provider and call nothing on the
\* transport.
C20_NegativeCountRejected ==
    \A n \in {c \in CountInputs : c < 0}, createOk \in BOOLEAN :
        /\ \A subjectName \in RawNames, names \in NameArrayInputs(n),
              values \in ValueArrayInputs(n) :
              LET r1 == ULL_RegisterObjectWithPropertiesBody(
                            Self, subjectName, names, n, createOk)
                  r2 == ULL_UpdateObjectWithPropertiesBody(
                            Self, subjectName, Pose1, values, n)
              IN /\ CoreOf(r1) = CoreOf(Self) /\ r1.calls = << >>
                 /\ CoreOf(r2) = CoreOf(Self) /\ r2.calls = << >>
        /\ \A subjectName \in RawDataNames, names \in NameArrayInputs(n),
              values \in ValueArrayInputs(n) :
              LET r3 == ULL_RegisterDataSubjectBody(Self, subjectName, names, n)
                  r4 == ULL_UpdateDataSubjectBody(Self, subjectName, values, n)
              IN /\ CoreOf(r3) = CoreOf(Self) /\ r3.calls = << >>
                 /\ CoreOf(r4) = CoreOf(Self) /\ r4.calls = << >>

\* The number of calls of transport function fn made for a subject since the
\* threads started, and whether a creation of the provider failed.
SentCount(fn, subject) ==
    Cardinality({i \in 1..Len(calls) : calls[i].fn = fn /\ calls[i].subject = subject})
CreationFailed ==
    \E i \in 1..Len(calls) : calls[i].fn = "CreateLiveLinkProvider" /\ ~calls[i].ok
\* Both threads called ULL_UpdateObject on rawName and have returned, the
\* bridge being initialized and no creation of the provider having failed.
BothUpdated(rawName) ==
    /\ \A t \in Threads : /\ pc[t].at = "done"
                          /\ pc[t].op = "ULL_UpdateObject"
                          /\ pc[t].name = rawName
    /\ bInitialized
    /\ ~CreationFailed

\* C16: when two threads call ULL_UpdateObject concurrently on the same
\* name, which is not registered, on an initialized bridge whose provider
\* creation succeeds, then once both calls have returned, whatever the
\* interleaving of their critical sections, TransformSubjects holds one
\* record, for that name and with zero expected properties, the provider was
\* created once, the static data of the subject were declared once and two
\* frames were pushed for it.
C16_ConcurrentUpdateRegistersOnce ==
    \A rawName \in RawNames :
        BothUpdated(rawName)
        => /\ DOMAIN TransformSubjects = {FName(rawName)}
           /\ TransformSubjects[FName(rawName)] = FSubjectInfoDefault
           /\ CreatedIn(calls) = 1
           /\ SentCount("UpdateSubjectStaticData", FName(rawName)) = 1
           /\ SentCount("UpdateSubjectFrameData", FName(rawName)) = 2
           /\ Len(calls) = 4

C16_Witness ==
    \E rawName \in RawNames :
        /\ BothUpdated(rawName)
        /\ SentCount("UpdateSubjectFrameData", FName(rawName)) = 2
        /\ Cardinality(DOMAIN TransformSubjects) = 1

\* Thread t is inside a method of the bridge.
InsideBridge(t) == pc[t].at \in {"GetCachedName", "method", "IsInitialized"}

\* C17: every public operation of the bridge holds CriticalSection from
\* its entry to its return: a thread that is inside a bridge method holds the
\* critical section, so that no two threads are inside bridge methods at the
\* same time and every read or write of the members is made by the holder.
C17_EveryOperationHoldsLock ==
    /\ \A t \in Threads : InsideBridge(t) => lock = t
    /\ Cardinality({t \in Threads : InsideBridge(t)}) <= 1

\* A thread is inside IsInitialized, reading bInitialized without the
\* critical section, while another holds it inside Shutdown.
C17_Witness ==
    \E t \in Threads, u \in Threads :
        /\ pc[t].at = "IsInitialized"
        /\ lock = u
        /\ pc[u].at = "method"
        /\ pc[u].op = "ULL_Shutdown"
        /\ bInitialized

\* Some call made by the last export names the subject.
SentFor(subject) ==
    \E i \in 1..Len(calls) :
        /\ calls[i].fn \in {"UpdateSubjectStaticData", "UpdateSubjectFrameData",
                            "RemoveSubject"}
        /\ calls[i].subject = subject

\* C21: an export given a NULL or an empty subject name is rejected before
\* it changes anything: in no reachable state does TransformSubjects or
\* DataSubjects hold a record under NAME_None, and no call on the provider
\* names NAME_None.
C21_NoneNeverStored ==
    /\ ~MapContains(TransformSubjects, NAME_None)
    /\ ~MapContains(DataSubjects, NAME_None)
    /\ ~SentFor(NAME_None)

\* A record under NAME_None after ULL_RegisterObject(""), declared to the
\* provider.
C21_Witness ==
    /\ lastOp = "ULL_RegisterObject"
    /\ MapContains(TransformSubjects, NAME_None)
    /\ SentFor(NAME_None)

\* C22: GetCachedName returns the same FName for the same string over any
\* sequence of calls: every stored entry maps a string to the FName made
\* from it; on a miss the call adds that one entry and returns its FName, on
\* a hit it returns the stored FName and leaves the bridge as it is, and for
\* a NULL or empty string it returns NAME_None and stores nothing.  A
\* second call with the same string returns the same FName and stores
\* nothing more.
C22_InternReturnsSameName ==
    /\ \A k \in DOMAIN NameCache : NameCache[k] = FName(k)
    /\ \A raw \in RawNames \cup RawDataNames \cup {NullPtr, EmptyName} :
           LET b1 == GetCachedName(Self, raw)
               n1 == CachedName(Self, raw)
           IN /\ CachedName(b1, raw) = n1
              /\ GetCachedName(b1, raw) = b1
              /\ CoreOf(b1) = CoreOf(Self)
              /\ IF raw \in {NullPtr, EmptyName}
                 THEN n1 = NAME_None /\ b1 = Self
                 ELSE IF MapContains(NameCache, raw)
                 THEN n1 = NameCache[raw] /\ b1 = Self
                 ELSE /\ DOMAIN b1.NameCache = DOMAIN NameCache \cup {raw}
                      /\ b1.NameCache[raw] = n1
                      /\ n1 = FName(raw)
                      /\ \A k \in DOMAIN NameCache : b1.NameCache[k] = NameCache[k]

\* Both cases occur: a name interned by an earlier export (a hit on the
\* next call) while another is not yet interned, or the cache emptied by
\* Shutdown after it held a name (a miss on the next call).
C22_Witness ==
    /\ lastOp \in {"ULL_RegisterObject", "ULL_UpdateDataSubject"}
    /\ \E raw \in RawNames \cup RawDataNames : MapContains(NameCache, raw)

\* Every subject that is in the map before and after a step has the same
\* record after it.
SchemaKept(old, new) == \A k \in DOMAIN old \cap DOMAIN new : new[k] = old[k]

\* C23: the property names and ExpectedPropertyCount of a subject never
\* change while it stays registered: every export, whatever its arguments,
\* leaves the record of every transform subject and of every data subject
\* it does not remove as it was, so a different schema can only appear
\* after the subject left the map (RemoveTransformSubject, RemoveDataSubject
\* or Shutdown) and was registered again.
C23_SchemaNeverChanges ==
    [][/\ SchemaKept(TransformSubjects, TransformSubjects')
       /\ SchemaKept(DataSubjects, DataSubjects')]_vars

\* A subject registered with properties was registered again without any,
\* or one registered without any was registered again with properties.
C23_Witness ==
    \/ \E k \in DOMAIN TransformSubjects :
           /\ TransformSubjects[k].ExpectedPropertyCount = MaxProps
           /\ LoggedFor("RegisterTransformSubject: already registered", k)
    \/ \E k \in DOMAIN TransformSubjects :
           /\ TransformSubjects[k].ExpectedPropertyCount = 0
           /\ LoggedFor("RegisterTransformSubjectWithProperties: already registered", k)

\* The last export named the subject in a condition it reported.
NamedInLog(subject) == \E i \in 1..Len(log) : log[i].subject = subject

\* A step changes which subjects a map holds only in one of three ways: one
\* subject, named by one of the exports in registering, enters; one subject
\* leaves by the export in removing; or ULL_Shutdown empties the map.
OnlyTransitions(old, new, registering, removing) ==
    LET entered == DOMAIN new \ DOMAIN old
        left == DOMAIN old \ DOMAIN new
    IN /\ entered # {}
          => /\ lastOp' \in registering
             /\ left = {}
             /\ \E k \in entered : entered = {k} /\ NamedInLog(k)'
       /\ left # {}
          => \/ /\ lastOp' = removing
                /\ entered = {}
                /\ \E k \in left : left = {k} /\ NamedInLog(k)'
             \/ lastOp' = "ULL_Shutdown" /\ DOMAIN new = {}

CalledFor(r, fn, subject) ==
    \E i \in 1..Len(r.calls) : r.calls[i].fn = fn /\ r.calls[i].subject = subject

\* C25: registering a data subject mirrors registering a transform subject
\* with properties: on an initialized bridge that does not hold the
\* subject, ULL_RegisterDataSubject adds the record to DataSubjects, makes
\* sure of the provider (it exists already or the call asks the factory for
\* it) and declares the static data of the subject to the provider.
C25_RegisterDataDeclares ==
    \A n \in RawDataNames, c \in 0..MaxProps :
        (bInitialized /\ ~MapContains(DataSubjects, FName(n)))
        => LET r == ULL_RegisterDataSubjectBody(Self, n, NameArray(c), c)
           IN /\ MapContains(r.DataSubjects, FName(n))
              /\ bLiveLinkSourceCreated \/ Attempts(r)
              /\ r.bLiveLinkSourceCreated
                 => CalledFor(r, "UpdateSubjectStaticData", FName(n))

\* C26: updating a data subject behaves as updating a transform subject
\* with properties: on an initialized bridge that has a provider, a value
\* list whose length differs from the ExpectedPropertyCount of a registered
\* data subject is dropped, and a list of matching length, or any list for a
\* subject DataSubjects does not hold, is pushed to the provider as a frame.
C26_UpdateDataPushes ==
    \A n \in RawDataNames, c \in 0..MaxProps :
        (bInitialized /\ bLiveLinkSourceCreated /\ LiveLinkProvider = ValidProvider)
        => LET r == ULL_UpdateDataSubjectBody(Self, n, ValueArray(c), c)
               k == FName(n)
           IN IF /\ MapContains(DataSubjects, k)
                 /\ DataSubjects[k].ExpectedPropertyCount # c
              THEN r.calls = << >>
              ELSE CalledFor(r, "UpdateSubjectFrameData", k)

\* The exports of each kind of subject.
TransformExports ==
    {"ULL_RegisterObject", "ULL_RegisterObjectWithProperties", "ULL_UpdateObject",
     "ULL_UpdateObjectWithProperties", "ULL_RemoveObject"}
DataExports ==
    {"ULL_RegisterDataSubject", "ULL_UpdateDataSubject", "ULL_RemoveDataSubject"}

\* C27: TransformSubjects and DataSubjects are separate namespaces: every
\* register, update or remove of a transform subject leaves DataSubjects as
\* it was, and every register, update or remove of a data subject leaves
\* TransformSubjects as it was, so that a transform subject and a data
\* subject of the same name can be registered at the same time.
C27_SeparateNamespaces ==
    [][/\ lastOp' \in TransformExports => DataSubjects' = DataSubjects
       /\ lastOp' \in DataExports => TransformSubjects' = TransformSubjects]_vars

\* A transform subject and a data subject are registered under one name,
\* the second of them by the last export.
C27_Witness ==
    \E k \in DOMAIN TransformSubjects \cap DOMAIN DataSubjects :
        \/ LoggedFor("RegisterDataSubject: registered", k)
        \/ LoggedFor("RegisterTransformSubject: registered", k)

\* C28: the static data of a subject are declared to the provider once per
\* lifetime of the subject: a step declares static data only for a subject
\* that TransformSubjects did not hold before the step and holds after it,
\* and declares them once; so between the registration of a subject and its
\* removal (or Shutdown) no further declaration is made, whatever updates
\* and repeated registrations are called.
C28_DeclaredOncePerLifetime ==
    [][\A i \in 1..Len(calls') :
           calls'[i].fn = "UpdateSubjectStaticData"
           => /\ ~MapContains(TransformSubjects, calls'[i].subject)
              /\ MapContains(TransformSubjects', calls'[i].subject)
              /\ \A j \in 1..Len(calls') :
                     (/\ calls'[j].fn = "UpdateSubjectStaticData"
                      /\ calls'[j].subject = calls'[i].subject) => j = i]_vars

\* A subject declared to the provider was registered again, or updated:
\* the call made no declaration.
C28_Witness ==
    /\ bLiveLinkSourceCreated
    /\ ~Sent("UpdateSubjectStaticData")
    /\ \E k \in DOMAIN TransformSubjects :
           \/ LoggedFor("RegisterTransformSubject: already registered", k)
           \/ LoggedFor("RegisterTransformSubjectWithProperties: already registered", k)

\* C29 as stated: ULL_Initialize returns ULL_OK exactly when the bridge is
\* initialized after the call, and ULL_ERROR otherwise.
C29_OkIffInitializedAfter ==
    \A providerName \in ProviderNameInputs, preInit \in {0, 1} :
        LET r == ULL_InitializeBody(Self, providerName, preInit)
            code == ULL_InitializeReturn(r)
        IN /\ code = ULL_OK <=> r.bInitialized
           /\ code # ULL_OK => code = ULL_ERROR

\* C29: ULL_Initialize returns ULL_OK exactly when it is given a provider
\* name that is neither NULL nor empty and the bridge is initialized after
\* the call, and the negative ULL_ERROR otherwise: for a NULL or empty name,
\* which leaves the bridge as it was, initialized or not, and when
\* GEngineLoop.PreInit fails, which leaves the bridge uninitialized with its
\* provider name, maps and provider unchanged.
C29_OkIffAcceptedAndInitialized ==
    \A providerName \in ProviderNameInputs, preInit \in {0, 1} :
        LET r == ULL_InitializeBody(Self, providerName, preInit)
            code == ULL_InitializeReturn(r)
            rejected == providerName \in {NullPtr, EmptyName}
            failed == /\ ~rejected
                      /\ ~bInitialized
                      /\ ~bGEngineLoopInitialized
                      /\ preInit # 0
        IN /\ code = ULL_OK <=> (~rejected /\ r.bInitialized)
           /\ code # ULL_OK => (code = ULL_ERROR /\ code < 0)
           /\ code = ULL_ERROR <=> (rejected \/ failed)
           /\ rejected => MembersOf(r) = MembersOf(Self)
           /\ failed => /\ ~r.bInitialized
                        /\ MembersOf(r) = MembersOf(Self)

\* ULL_Initialize returned ULL_ERROR because PreInit failed.
C29_Witness ==
    /\ lastOp = "ULL_Initialize"
    /\ ret = <<ULL_ERROR>>
    /\ Logged("Initialize: PreInit failed")
    /\ ~bInitialized

\* C30: in the mock, ULL_Initialize with a provider name that is not NULL
\* returns 0 whenever the mock is not initialized, also straight after a
\* ULL_Shutdown, and leaves the mock initialized under that name with its
\* three subject collections empty; called while the mock is initialized it
\* returns the error code 1 and changes none of the static variables.
C30_MockInitialize ==
    \A providerName \in ProviderNameInputs \ {NullPtr} :
        LET s == Mock_ULL_ShutdownBody(mock)
            afterShutdown == Mock_ULL_InitializeBody(s, providerName)
            r == Mock_ULL_InitializeBody(mock, providerName)
            emptyInitialized(m) ==
                /\ m.g_isInitialized
                /\ m.g_providerName = providerName
                /\ m.g_transformObjects = {}
                /\ m.g_transformObjectProperties = EmptyMap
                /\ m.g_dataSubjectProperties = EmptyMap
        IN /\ Mock_ULL_InitializeReturn(s, providerName) = 0
           /\ emptyInitialized(afterShutdown)
           /\ IF mock.g_isInitialized
              THEN /\ Mock_ULL_InitializeReturn(mock, providerName) = 1
                   /\ r = mock
              ELSE /\ Mock_ULL_InitializeReturn(mock, providerName) = 0
                   /\ emptyInitialized(r)

\* ULL_Initialize was refused by a mock that is initialized and holds
\* subjects.
C30_Witness ==
    /\ lastOp = "ULL_Initialize"
    /\ ret = <<1>>
    /\ mock.g_isInitialized
    /\ mock.g_transformObjects # {}
    /\ mock.g_dataSubjectProperties # EmptyMap

\* GEngineLoop.PreInit is among the calls cs.
PreInitCalled(cs) == \E i \in 1..Len(cs) : cs[i].fn = "PreInit"

\* C31: GEngineLoop.PreInit is called at most once per process, whatever
\* sequence of ULL_Initialize and ULL_Shutdown is called and also when an
\* Initialize fails; in particular no two exports called one after the
\* other both call it.
C31_PreInitAtMostOnce ==
    [][~(PreInitCalled(calls) /\ PreInitCalled(calls'))]_vars

\* ULL_Initialize called GEngineLoop.PreInit, which failed, and the flag
\* that would keep the next Initialize from calling it again is not set.
C31_Witness ==
    /\ lastOp = "ULL_Initialize"
    /\ PreInitCalled(calls)
    /\ Logged("Initialize: PreInit failed")
    /\ ~bGEngineLoopInitialized

\* A transform subject that TransformSubjects holds and the provider has
\* not been given: it was recorded while the provider could not be created.
KeptUndeclared(k) == MapContains(TransformSubjects, k) /\ k \notin declared

\* C32: a transform subject that was recorded while the provider could not
\* be created is retried: once the bridge has a provider, in the same
\* Initialize/Shutdown cycle and with the subject still recorded, its static
\* data are eventually declared to the provider.
C32_TrackedSubjectRetried ==
    \A n \in TransportNames :
        (KeptUndeclared(FName(n)) /\ bLiveLinkSourceCreated)
            ~> (FName(n) \in declared \/ ~MapContains(TransformSubjects, FName(n)))

\* A subject recorded after a failed creation is still undeclared although
\* the bridge has a provider by now, and was just registered again.
C32_Witness ==
    /\ bLiveLinkSourceCreated
    /\ \E n \in TransportNames :
           /\ KeptUndeclared(FName(n))
           /\ LoggedFor("RegisterTransformSubject: already registered", FName(n))

\* The subjects for which the calls cs, made in that order on a provider
\* that held the subjects d, push a frame while the provider does not hold
\* their static data.
RECURSIVE UndeclaredFrames(_, _)
UndeclaredFrames(d, cs) ==
    IF cs = << >>
    THEN {}
    ELSE (IF Head(cs).fn = "UpdateSubjectFrameData" /\ Head(cs).subject \notin d
          THEN {Head(cs).subject} ELSE {})
         \cup UndeclaredFrames(DeclaredAfter(d, <<Head(cs)>>), Tail(cs))

\* C38: every frame pushed to the provider for a subject is preceded, in
\* the same Initialize/Shutdown cycle, on the same provider and since the
\* last removal of the subject, by a declaration of the subject's static
\* data.
C38_FramePrecededByDeclaration ==
    [][UndeclaredFrames(declared, calls') = {}]_vars

\* UpdateTransformSubject pushed a frame for a subject that is recorded in
\* TransformSubjects and was never declared to the provider.
C38_Witness ==
    /\ lastOp = "ULL_UpdateObject"
    /\ \E i \in 1..Len(calls) :
           /\ calls[i].fn = "UpdateSubjectFrameData"
           /\ KeptUndeclared(calls[i].subject)

\* Where a thread is while it is inside a bridge method, and so inside the
\* scope of that method's FScopeLock.
InsideScope == {"GetCachedName", "method", "autoRegister", "RegisterTransformSubject", "push"}

\* C33: every call terminates and returns to its caller with the critical
\* section released, whatever the state of the bridge and whichever path
\* the call takes: a thread that entered a call reaches its return, a
\* thread outside the bridge methods does not hold the critical section,
\* and a thread holds it from the start of a method to its return; in
\* particular the RegisterTransformSubject that UpdateTransformSubject calls
\* takes the section a second time on the thread that holds it, without
\* waiting, and its return leaves the section with that thread until
\* UpdateTransformSubject returns.
C33_CallsReturnUnlocked ==
    /\ [](\A t \in Threads :
              /\ pc[t].at \notin InsideScope => lock # t
              /\ pc[t].at \in InsideScope => (lock = t /\ depth >= 1)
              /\ pc[t].at = "RegisterTransformSubject" => depth = 2
              /\ pc[t].at \in {"autoRegister", "push"} => depth = 1)
    /\ [](lock = NoThread <=> depth = 0)
    /\ \A t \in Threads : (pc[t].at # "idle") ~> (pc[t].at = "done" /\ lock # t)

\* A thread is inside the RegisterTransformSubject called by
\* UpdateTransformSubject, holding the critical section twice, while the
\* other thread waits to enter a method.
C33_Witness ==
    \E t \in Threads, u \in Threads :
        /\ pc[t].at = "RegisterTransformSubject"
        /\ lock = t
        /\ depth = 2
        /\ u # t
        /\ pc[u].at \in {"called", "interned"}

\* The last export was an UpdateTransformSubject that found the bridge not
\* initialized (in CountedSpec every ULL_UpdateObject reaches the bridge).
RejectedUpdate(op, initialized) == op = "ULL_UpdateObject" /\ ~initialized

\* C34: the report of UpdateTransformSubject calls rejected because the
\* bridge is not initialized is limited to the first call of a streak and
\* periodically after it: a rejected call that does not follow a rejected
\* call is reported, and of two rejected calls made one after the other at
\* most one is reported (at most one report in 60 calls).
C34_FirstOfStreakReported ==
    [][RejectedUpdate(lastOp', bInitialized')
       => /\ ~RejectedUpdate(lastOp, bInitialized)
             => Logged("UpdateTransformSubject: not initialized")'
          /\ RejectedUpdate(lastOp, bInitialized)
             => ~(/\ Logged("UpdateTransformSubject: not initialized")
                  /\ Logged("UpdateTransformSubject: not initialized")')]_vars

\* The sixty-first rejected call of the process was reported.
C34_Witness ==
    /\ RejectedUpdate(lastOp, bInitialized)
    /\ NotInitializedCount = ThrottlePeriod + 1
    /\ Logged("UpdateTransformSubject: not initialized")

\* C35: in every reachable state bLiveLinkSourceCreated is set exactly when
\* LiveLinkProvider is valid, a provider exists only while the bridge is
\* initialized, and a bridge that is not initialized has both subject maps
\* empty and an empty provider name.
C35_HandleOnlyWhenInitialized ==
    /\ bLiveLinkSourceCreated <=> (LiveLinkProvider = ValidProvider)
    /\ LiveLinkProvider = ValidProvider => bInitialized
    /\ ~bInitialized => /\ TransformSubjects = EmptyMap
                        /\ DataSubjects = EmptyMap
                        /\ ProviderName = ""

\* Either ULL_Shutdown destroyed the provider of an initialized bridge, or
\* a registration on an initialized bridge failed to create one.
C35_Witness ==
    \/ /\ lastOp = "ULL_Shutdown"
       /\ Sent("Reset")
       /\ ~bInitialized
       /\ LiveLinkProvider = NullProvider
    \/ /\ bInitialized
       /\ Logged("EnsureLiveLinkSource: failed")
       /\ TransformSubjects # EmptyMap
       /\ DataSubjects # EmptyMap

TransportFns == {"UpdateSubjectStaticData", "UpdateSubjectFrameData", "RemoveSubject"}

\* C37: no call reaches the provider (static data, frame data, removal of
\* a subject) while the bridge is not initialized or has no valid provider,
\* however the Shutdown of one thread is interleaved with the register,
\* update and remove calls of another: every such call is made by a step
\* that starts and ends with the bridge initialized and ends with a valid
\* provider, which the bridge had before the step or created in the step
\* before the call.
C37_NoTransportCallWithoutProvider ==
    [][\A i \in (Len(calls) + 1)..Len(calls') :
           calls'[i].fn \in TransportFns
           => /\ bInitialized
              /\ bInitialized'
              /\ LiveLinkProvider' = ValidProvider
              /\ bLiveLinkSourceCreated'
              /\ \/ LiveLinkProvider = ValidProvider
                 \/ \E j \in (Len(calls) + 1)..(i - 1) :
                        /\ calls'[j].fn = "CreateLiveLinkProvider"
                        /\ calls'[j].ok]_vars

\* One thread is inside UpdateTransformSubject, having declared the subject
\* it auto-registered, while the other thread has called ULL_Shutdown and
\* waits for the critical section.
C37_Witness ==
    \E t \in Threads, u \in Threads :
        /\ pc[t].op = "ULL_UpdateObject"
        /\ pc[t].at = "push"
        /\ Sent("UpdateSubjectStaticData")
        /\ pc[u].op = "ULL_Shutdown"
        /\ pc[u].at = "called"

\* C39 as stated: whenever the bridge is not initialized NameCache is
\* empty.
C39_CacheEmptyWhenUninitialized ==
    ~bInitialized => NameCache = EmptyMap

\* C39: NameCache is emptied by the Shutdown that takes the bridge from
\* initialized to not initialized, also when that Shutdown runs between the
\* interning of a name and the registry method of the same call; but
\* GetCachedName stores the name it is given whether or not the bridge is
\* initialized, so a call made before Initialize or after Shutdown leaves
\* its entry in the cache of a bridge that is not initialized, and no other
\* step changes the cache.
C39_CacheFilledRegardlessOfState ==
    [][/\ (bInitialized /\ ~bInitialized') => NameCache' = EmptyMap
       /\ (~bInitialized /\ bInitialized') => NameCache' = NameCache
       /\ \A t \in Threads :
              (pc[t].at = "GetCachedName" /\ pc'[t].at = "interned")
              => /\ NameCache' = MapAdd(NameCache, pc[t].name, FName(pc[t].name))
                 /\ bInitialized' = bInitialized
       /\ (/\ bInitialized' = bInitialized
           /\ \A t \in Threads : pc[t].at # "GetCachedName")
          => NameCache' = NameCache]_vars

\* A thread interned its subject name, the other thread's ULL_Shutdown ran
\* before the first thread's registry method and emptied the cache, and a
\* name interned on the bridge that is not initialized is in the cache.
C39_Witness ==
    /\ ~bInitialized
    /\ NameCache # EmptyMap
    /\ Logged("Shutdown: clearing")
    /\ \E t \in Threads :
           /\ pc[t].at = "interned"
           /\ MapContains(NameCache, pc[t].name)

\* The subject names under which the bridge holds a transform subject.
RegisteredNames == {k.Name : k \in DOMAIN TransformSubjects}

\* C40: after the same sequence of lifecycle and transform exports the mock
\* and the bridge hold the same set of registered transform subjects, and
\* they drop the same ULL_UpdateObjectWithProperties calls for a property
\* count that does not match.
C40_MockAgreesWithBridge ==
    /\ RegisteredNames = mock.g_transformObjects
    /\ \A subjectName \in RawNames, propertyCount \in 0..MaxProps :
           LET r == ULL_UpdateObjectWithPropertiesBody(
                        Self, subjectName, Pose1, ValueArray(propertyCount),
                        propertyCount)
               dropped == \E i \in 1..Len(r.log) :
                              r.log[i].msg = "UpdateTransformSubjectWithProperties: property count mismatch"
           IN dropped <=> Mock_PropertyCountMismatch(mock, subjectName, propertyCount)

\* ULL_UpdateObjectWithProperties was called for a subject neither library
\* held: the mock registered it, the bridge did not.
C40_Witness ==
    /\ lastOp = "ULL_UpdateObjectWithProperties"
    /\ bInitialized
    /\ mock.g_isInitialized
    /\ TransformSubjects = EmptyMap
    /\ mock.g_transformObjects # {}

TypeOK ==
    /\ bInitialized \in BOOLEAN
    /\ bLiveLinkReady \in BOOLEAN
    /\ bLiveLinkSourceCreated \in BOOLEAN
    /\ bGEngineLoopInitialized \in BOOLEAN
    /\ LiveLinkProvider \in {NullProvider, ValidProvider}

====
